---- MODULE Spec2Model ----
(***************************************************************************)
(* Model of the NFL data pipeline: the sanitizer / validator of           *)
(* python-api/main.py, the season aggregator, the two team rollups and    *)
(* the two extract pipelines (python-api/main.py and                      *)
(* scripts/nfl_data_extractor.py).                                         *)
(*                                                                         *)
(* A pandas DataFrame is a record [cols, rows]: the set of column names   *)
(* and the sequence of rows, each row a function from cols to cells.      *)
(* A cell is a record [t, n, d, s]:                                        *)
(*   t = "num"  the finite number n / d  (d > 0)                           *)
(*   t = "inf"  +Inf (n = 1) or -Inf (n = -1)                              *)
(*   t = "nan"  NaN / None, pandas' missing value                          *)
(*   t = "str"  the string s                                               *)
(* A column's dtype is what pandas infers from its cells: numeric when no *)
(* cell of it is a string.                                                 *)
(***************************************************************************)
EXTENDS Integers, Sequences, FiniteSets, TLC

VARIABLES
    pc,               \* position of the running call
    df,               \* sanitize_dataframe / validate_nfl_data: the argument
    sanitized_df,     \* sanitize_dataframe: the returned table
    quality_metrics,  \* sanitize_dataframe: the returned metrics
    log,              \* validate_nfl_data: the diagnostic records emitted
    weekly_stats,     \* the per-week player table
    seasonal_stats,   \* the per-season player table
    rosters,          \* the roster table
    aggregated_season_stats,  \* result of the season aggregation
    team_analytics,   \* result of calculate_team_analytics
    raised,           \* whether the running call ended in an exception
    request,          \* the invocation's parameters: positions and week
    applied,          \* per output table, the last step that produced it
    upstream,         \* what the provider answers to each of the three fetches
    steps,            \* the fetches, validations and filters done so far, in order
    response,         \* the HTTP response of extract_nfl_data
    sys_stdout,       \* the process-wide sys.stdout
    invocations       \* the concurrent extract_player_stats calls: position, locals

sanVars == <<df, sanitized_df, quality_metrics, log>>

dataVars == <<weekly_stats, seasonal_stats, rosters, aggregated_season_stats,
              team_analytics, raised, request, applied>>

envVars == <<upstream, steps, response, sys_stdout, invocations>>

vars == <<pc, sanVars, dataVars, envVars>>

----------------------------------------------------------------------------
(* Cells *)

Num(n) == [t |-> "num", n |-> n, d |-> 1, s |-> ""]

Frac(n, d) == [t |-> "num", n |-> n, d |-> d, s |-> ""]

PosInf == [t |-> "inf", n |-> 1, d |-> 0, s |-> ""]

NegInf == [t |-> "inf", n |-> -1, d |-> 0, s |-> ""]

NaN == [t |-> "nan", n |-> 0, d |-> 0, s |-> ""]

Str(x) == [t |-> "str", n |-> 0, d |-> 0, s |-> x]

IsInf(c) == c.t = "inf"

IsNa(c) == c.t = "nan"

IsFinite(c) == c.t = "num"

----------------------------------------------------------------------------
(* Tables *)

MaxRows == 2

EmptyTable == [cols |-> {}, rows |-> <<>>]

\* DataFrame.empty: no rows or no columns
IsEmpty(t) == t.cols = {} \/ Len(t.rows) = 0

RowIdx(t) == 1 .. Len(t.rows)

\* select_dtypes(include=[np.number]).columns
NumericCols(t) == {c \in t.cols : \A i \in RowIdx(t) : t.rows[i][c].t # "str"}

\* the cells of the numeric columns, as (row, column) positions
NumericCells(t) == {p \in RowIdx(t) \X t.cols : p[2] \in NumericCols(t)}

\* an elementwise DataFrame operation: cell c of t becomes g[c]
MapCells(t, g) ==
    [cols |-> t.cols,
     rows |-> [i \in RowIdx(t) |-> [c \in t.cols |-> g[t.rows[i][c]]]]]

CellsIn(t) == {t.rows[i][c] : i \in RowIdx(t), c \in t.cols}

\* df.replace([np.inf, -np.inf], np.nan): every column, whatever its dtype
ReplaceInf(t) ==
    MapCells(t, [c \in CellsIn(t) |-> IF IsInf(c) THEN NaN ELSE c])

\* df.fillna(0): every column, whatever its dtype
FillNa0(t) ==
    MapCells(t, [c \in CellsIn(t) |-> IF IsNa(c) THEN Num(0) ELSE c])

----------------------------------------------------------------------------
(* Arithmetic on cells, as pandas / numpy float arithmetic does it.        *)
(* Finite numbers are exact fractions in lowest terms; rounding is not     *)
(* modelled.                                                               *)

Abs(n) == IF n < 0 THEN -n ELSE n

RECURSIVE Gcd(_, _)
Gcd(a, b) == IF b = 0 THEN a ELSE Gcd(b, a % b)

\* the finite number n / d (d # 0) in lowest terms
MkNum(n, d) ==
    LET g == Gcd(Abs(n), Abs(d))
        sg == IF d < 0 THEN -1 ELSE 1
    IN  [t |-> "num", n |-> (sg * n) \div g, d |-> Abs(d) \div g, s |-> ""]

Sign(c) == IF c.n > 0 THEN 1 ELSE IF c.n < 0 THEN -1 ELSE 0

InfOf(sg) == IF sg > 0 THEN PosInf ELSE NegInf

\* a + b
Add(a, b) ==
    IF IsNa(a) \/ IsNa(b) THEN NaN
    ELSE IF IsInf(a) /\ IsInf(b) THEN (IF a = b THEN a ELSE NaN)
    ELSE IF IsInf(a) THEN a
    ELSE IF IsInf(b) THEN b
    ELSE MkNum(a.n * b.d + b.n * a.d, a.d * b.d)

\* a * k for an integer k > 0
Times(a, k) == IF IsFinite(a) THEN MkNum(a.n * k, a.d) ELSE a

\* a / b: x / 0 is +Inf or -Inf, 0 / 0 is NaN, nothing is raised
Div(a, b) ==
    IF IsNa(a) \/ IsNa(b) THEN NaN
    ELSE IF IsInf(a) THEN (IF IsInf(b) THEN NaN
                          ELSE InfOf(Sign(a) * (IF Sign(b) < 0 THEN -1 ELSE 1)))
    ELSE IF IsInf(b) THEN Num(0)
    ELSE IF b.n = 0 THEN (IF a.n = 0 THEN NaN ELSE InfOf(Sign(a)))
    ELSE MkNum(a.n * b.d, a.d * b.n)

\* a > 0 (False for NaN)
Positive(a) == ~IsNa(a) /\ a.n > 0

\* Series.sum() of the cells of a sequence: missing values are skipped
RECURSIVE SumCells(_)
SumCells(q) ==
    IF q = <<>> THEN Num(0)
    ELSE IF IsNa(Head(q)) THEN SumCells(Tail(q))
    ELSE Add(Head(q), SumCells(Tail(q)))

\* Series.count(): the cells that are not missing
RECURSIVE CountCells(_)
CountCells(q) ==
    IF q = <<>> THEN 0
    ELSE (IF IsNa(Head(q)) THEN 0 ELSE 1) + CountCells(Tail(q))

\* s.fillna(0) of one cell
Fill0(c) == IF IsNa(c) THEN Num(0) ELSE c

----------------------------------------------------------------------------
(* Table operations *)

\* the subsequence of q whose elements are in S
RECURSIVE Filter(_, _)
Filter(q, S) ==
    IF q = <<>> THEN <<>>
    ELSE (IF Head(q) \in S THEN <<Head(q)>> ELSE <<>>) \o Filter(Tail(q), S)

\* df[mask]: the rows of t that are in R, in order
SelectRows(t, R) == [cols |-> t.cols, rows |-> Filter(t.rows, R)]

\* the cells of column c, in row order
Column(t, c) == [i \in RowIdx(t) |-> t.rows[i][c]]

\* df.rename(columns={old: new})
Rename(t, old, new) ==
    [cols |-> (t.cols \ {old}) \cup {new},
     rows |-> [i \in RowIdx(t) |->
                 [c \in (t.cols \ {old}) \cup {new} |->
                     IF c = new THEN t.rows[i][old] ELSE t.rows[i][c]]]]

\* df[c] = f(row), a new or an overwritten column; v is the column's cells
WithColumn(t, c, v) ==
    [cols |-> t.cols \cup {c},
     rows |-> [i \in RowIdx(t) |->
                 [x \in t.cols \cup {c} |-> IF x = c THEN v[i] ELSE t.rows[i][x]]]]

\* the rows of q at the positions in I, in order, from position i on
RECURSIVE PickIdx(_, _, _)
PickIdx(q, I, i) ==
    IF i > Len(q) THEN <<>>
    ELSE (IF i \in I THEN <<q[i]>> ELSE <<>>) \o PickIdx(q, I, i + 1)

\* df[cs]: the columns cs of t
Project(t, cs) ==
    [cols |-> cs, rows |-> [i \in RowIdx(t) |-> [c \in cs |-> t.rows[i][c]]]]

\* df.drop_duplicates(c): the first row of each value of column c
DropDuplicates(t, c) ==
    [cols |-> t.cols,
     rows |-> PickIdx(t.rows,
                      {i \in RowIdx(t) :
                          \A j \in 1 .. (i - 1) : t.rows[j][c] # t.rows[i][c]}, 1)]

\* the outcome of a call: a table, or an exception (KeyError)
Ok(t) == [raised |-> FALSE, table |-> t]

Raised == [raised |-> TRUE, table |-> EmptyTable]

----------------------------------------------------------------------------
(* python-api/main.py: sanitize_dataframe *)

ZeroMetrics == [inf_count |-> 0, nan_count |-> 0]

\* a plausible slip: the counts taken after the Inf -> NaN replacement
CountMetricsAfterReplace(t) ==
    [inf_count |-> Cardinality({p \in NumericCells(ReplaceInf(t)) :
                                   IsInf(ReplaceInf(t).rows[p[1]][p[2]])}),
     nan_count |-> Cardinality({p \in NumericCells(ReplaceInf(t)) :
                                   IsNa(ReplaceInf(t).rows[p[1]][p[2]])})]

CountMetrics(t) ==
    [inf_count |-> Cardinality({p \in NumericCells(t) : IsInf(t.rows[p[1]][p[2]])}),
     nan_count |-> Cardinality({p \in NumericCells(t) : IsNa(t.rows[p[1]][p[2]])})]

\* a plausible slip: only +Inf is replaced
CleanPosInfOnly(t) ==
    FillNa0(MapCells(t, [c \in CellsIn(t) |-> IF c = PosInf THEN NaN ELSE c]))

CleanTable(t) == FillNa0(ReplaceInf(t))

sanitize_dataframe(t) ==
    IF IsEmpty(t)
    THEN [df |-> t, metrics |-> ZeroMetrics]
    ELSE [df |-> CleanTable(t), metrics |-> CountMetrics(t)]

----------------------------------------------------------------------------
(* python-api/main.py: validate_nfl_data *)

SampleSize == 3

\* the rows of t whose cell in column c is infinite, in order
RECURSIVE InfRows(_, _, _)
InfRows(t, c, i) ==
    IF i > Len(t.rows) THEN <<>>
    ELSE (IF IsInf(t.rows[i][c]) THEN <<t.rows[i]>> ELSE <<>>)
         \o InfRows(t, c, i + 1)

Head3(s) == SubSeq(s, 1, IF Len(s) < SampleSize THEN Len(s) ELSE SampleSize)

\* a plausible slip: missing values are flagged together with the infinities
ColBadCount(t, c) ==
    Cardinality({i \in RowIdx(t) : IsInf(t.rows[i][c]) \/ IsNa(t.rows[i][c])})

ColInfCount(t, c) == Cardinality({i \in RowIdx(t) : IsInf(t.rows[i][c])})

Diagnostic(t, c, k) ==
    [column |-> c, inf_count |-> k, sample_rows |-> Head3(InfRows(t, c, 1))]

\* the table as the call leaves it, and the records it logs
validate_nfl_data(t) ==
    IF IsEmpty(t)
    THEN [df |-> t, log |-> {}]
    ELSE [df |-> t,
          log |-> {Diagnostic(t, c, ColInfCount(t, c)) :
                      c \in {x \in NumericCols(t) : ColInfCount(t, x) > 0}}]

----------------------------------------------------------------------------
(* Sanitizer / validator harness: any table of the test schema            *)
(* (two float columns and a string column), validated and sanitized.      *)

SanCols == {"value", "score", "name"}

FloatCells == {Num(1), PosInf, NegInf, NaN}

ObjectCells == {Str("a"), NaN}

CellsOf(c) ==
    IF c = "name" THEN ObjectCells
    ELSE IF c = "score" THEN FloatCells \ {NegInf}
    ELSE FloatCells

RowsOver(cols) == {r \in [cols -> FloatCells \cup ObjectCells] :
                      \A c \in cols : r[c] \in CellsOf(c)}

\* the sequences over S of length at most n
SeqsUpTo(S, n) == UNION {[1 .. k -> S] : k \in 0 .. n}

SanTables ==
    UNION {{[cols |-> cs, rows |-> rs] : rs \in SeqsUpTo(RowsOver(cs), MaxRows)} :
              cs \in SUBSET SanCols}

\* positions = "QB,RB,WR,TE"
DefaultPositions == {"QB", "RB", "WR", "TE"}

\* the default parameters: week is None (a missing cell)
DefaultRequest == [positions |-> DefaultPositions, week |-> NaN]

\* the tables of a response
Outputs ==
    {"weekly_stats", "seasonal_stats", "aggregated_season_stats", "player_info",
     "team_analytics"}

NoSteps == [o \in Outputs |-> "none"]

\* no player tables are in play
\* no request and no concurrent invocation is in play
NoRequest ==
    /\ upstream = <<>>
    /\ steps = <<>>
    /\ response = [status |-> 0]
    /\ sys_stdout = "terminal"
    /\ invocations = <<>>

NoData ==
    /\ weekly_stats = EmptyTable
    /\ seasonal_stats = EmptyTable
    /\ rosters = EmptyTable
    /\ aggregated_season_stats = EmptyTable
    /\ team_analytics = EmptyTable
    /\ raised = FALSE
    /\ request = DefaultRequest
    /\ applied = NoSteps

\* no sanitizer call is in play
NoSanitize ==
    /\ df = EmptyTable
    /\ sanitized_df = EmptyTable
    /\ quality_metrics = ZeroMetrics
    /\ log = {}

InitSanitize ==
    /\ pc = "start"
    /\ NoData
    /\ df \in SanTables
    /\ sanitized_df = EmptyTable
    /\ quality_metrics = ZeroMetrics
    /\ log = {}
    /\ NoRequest

\* validate_nfl_data(df, name) on the freshly built table
CallValidate ==
    /\ pc = "start"
    /\ df' = validate_nfl_data(df).df
    /\ log' = validate_nfl_data(df).log
    /\ pc' = "validated"
    /\ UNCHANGED <<sanitized_df, quality_metrics, dataVars>>
    /\ UNCHANGED envVars

\* sanitized, metrics = sanitize_dataframe(df, name)
CallSanitize ==
    /\ pc \in {"start", "validated"}
    /\ sanitized_df' = sanitize_dataframe(df).df
    /\ quality_metrics' = sanitize_dataframe(df).metrics
    /\ pc' = "sanitized"
    /\ UNCHANGED <<df, log, dataVars>>
    /\ UNCHANGED envVars

\* the returned table is sanitized once more
CallSanitizeAgain ==
    /\ pc = "sanitized"
    /\ df' = sanitized_df
    /\ sanitized_df' = sanitize_dataframe(sanitized_df).df
    /\ quality_metrics' = sanitize_dataframe(sanitized_df).metrics
    /\ pc' = "resanitized"
    /\ UNCHANGED <<log, dataVars>>
    /\ UNCHANGED envVars

NextSanitize == CallValidate \/ CallSanitize \/ CallSanitizeAgain

SpecSanitize == InitSanitize /\ [][NextSanitize]_vars

----------------------------------------------------------------------------
(* Properties of the sanitizer / validator *)

Sanitized == pc \in {"sanitized", "resanitized"}

NonFinite(c) == c.t \in {"inf", "nan"}

\* the positions of df whose column holds no string and whose cell is in S
NumericPositions(t, S) ==
    {p \in (1 .. Len(t.rows)) \X t.cols :
        /\ \A i \in 1 .. Len(t.rows) : t.rows[i][p[2]].t # "str"
        /\ t.rows[p[1]][p[2]] \in S}

\* C1: whatever the input holds (+Inf, -Inf, NaN in any numeric column), the
\* table Sanitize returns has no numeric cell that is +Inf, -Inf or NaN.
C1_SanitizedIsFinite ==
    Sanitized =>
        \A i \in 1 .. Len(sanitized_df.rows) : \A c \in NumericCols(sanitized_df) :
            ~NonFinite(sanitized_df.rows[i][c])

C1_Witness ==
    /\ pc = "sanitized"
    /\ df.cols = SanCols
    /\ \E i \in RowIdx(df) : df.rows[i]["value"] = PosInf
    /\ \E i \in RowIdx(df) : df.rows[i]["value"] = NegInf
    /\ \E i \in RowIdx(df) : df.rows[i]["score"] = NaN

\* C2: Sanitize returns a table with the rows and columns of its input in
\* which every numeric cell that was +Inf, -Inf or NaN is 0 and every other
\* cell equals the input cell at the same position.
C2_OnlyNonFiniteNumericChanged ==
    Sanitized =>
        /\ sanitized_df.cols = df.cols
        /\ Len(sanitized_df.rows) = Len(df.rows)
        /\ \A i \in RowIdx(df) : \A c \in df.cols :
              sanitized_df.rows[i][c] =
                  IF c \in NumericCols(df) /\ NonFinite(df.rows[i][c])
                  THEN Num(0) ELSE df.rows[i][c]

\* C3: the metrics are counted on the input, before any replacement:
\* inf_count is the number of +Inf / -Inf numeric cells of the input and
\* nan_count the number of its NaN numeric cells (an infinite cell is not
\* counted as NaN).
C3_MetricsCountInput ==
    Sanitized =>
        /\ quality_metrics.inf_count =
              Cardinality(NumericPositions(df, {PosInf, NegInf}))
        /\ quality_metrics.nan_count = Cardinality(NumericPositions(df, {NaN}))

C3_Witness ==
    /\ pc = "sanitized"
    /\ df.cols = SanCols
    /\ quality_metrics.inf_count = 2
    /\ quality_metrics.nan_count = 1
    /\ \E i \in RowIdx(df) : df.rows[i]["value"] = NegInf

\* C4: on a table with no non-finite numeric cell (all finite, empty, or
\* without numeric columns, whatever the other cells hold) Sanitize returns
\* the input itself with metrics {0, 0}.
C4_NoOpOnCleanInput ==
    Sanitized /\ NumericPositions(df, {PosInf, NegInf, NaN}) = {} =>
        /\ sanitized_df = df
        /\ quality_metrics = ZeroMetrics

\* what Validate must log for table t: one record for each numeric column
\* with an infinity, with the column's name and its count of infinities
ExpectedLog(t, l) ==
    /\ \A r \in l : r.column \in t.cols
    /\ \A c \in t.cols :
          LET k == Cardinality({i \in 1 .. Len(t.rows) :
                                   t.rows[i][c] \in {PosInf, NegInf}})
              numeric == \A i \in 1 .. Len(t.rows) : t.rows[i][c].t # "str"
              recs == {r \in l : r.column = c}
          IN  IF numeric /\ k > 0
              THEN Cardinality(recs) = 1 /\ \A r \in recs : r.inf_count = k
              ELSE recs = {}

\* C5: Validate leaves the table as it was and emits exactly one diagnostic
\* per numeric column holding an infinity (column name, count of infinite
\* values); nothing for NaN-only, string or infinity-free columns, nor for
\* an empty table.
C5_ValidateReadOnly ==
    [][CallValidate => df' = df /\ ExpectedLog(df, log')]_vars

C5_Witness ==
    /\ pc = "validated"
    /\ df.cols = SanCols
    /\ Cardinality(log) = 1
    /\ \A i \in RowIdx(df) : df.rows[i]["score"] = NaN
    /\ \E r \in log : r.inf_count = 2

----------------------------------------------------------------------------
(* Ordering of cells and of group keys: groupby returns its groups sorted  *)
(* by key.                                                                 *)

\* the strings of the model, in alphabetical order
StrOrder ==
    <<"", "DEF", "K", "KC", "QB", "RB", "SF", "TE", "WR", "a", "b", "p1", "p2", "p3">>

StrRank(x) == CHOOSE i \in 1 .. Len(StrOrder) : StrOrder[i] = x

CellLess(a, b) ==
    IF a.t = "str" /\ b.t = "str" THEN StrRank(a.s) < StrRank(b.s)
    ELSE IF a.t = "num" /\ b.t = "num" THEN a.n * b.d < b.n * a.d
    ELSE a.t = "num" /\ b.t = "str"

\* lexicographic order of two keys over the columns G (a sequence)
RECURSIVE KeyLess(_, _, _)
KeyLess(k1, k2, G) ==
    IF G = <<>> THEN FALSE
    ELSE IF k1[Head(G)] = k2[Head(G)] THEN KeyLess(k1, k2, Tail(G))
    ELSE CellLess(k1[Head(G)], k2[Head(G)])

\* the keys of K as a sorted sequence
RECURSIVE SortKeys(_, _)
SortKeys(K, G) ==
    IF K = {} THEN <<>>
    ELSE LET m == CHOOSE k \in K : \A j \in K \ {k} : KeyLess(k, j, G)
         IN  <<m>> \o SortKeys(K \ {m}, G)

SeqToSet(q) == {q[i] : i \in 1 .. Len(q)}

\* the key of a row over the columns G
KeyOf(r, G) == [c \in SeqToSet(G) |-> r[c]]

\* the groups of df.groupby(G): the keys of the rows none of whose key
\* cells is missing (dropna=True), sorted
GroupKeys(t, G) ==
    SortKeys({KeyOf(t.rows[i], G) :
                 i \in {j \in RowIdx(t) : \A c \in SeqToSet(G) : ~IsNa(t.rows[j][c])}},
             G)

\* the cells of column c in the rows of group k
GroupColumn(t, G, k, c) ==
    Column(SelectRows(t, {r \in SeqToSet(t.rows) : KeyOf(r, G) = k}), c)

----------------------------------------------------------------------------
(* scripts/nfl_data_extractor.py: aggregate_weekly_to_season *)

column_mapping ==
    << <<"player_display_name", "player_name">>, <<"fantasy_pos", "position">>,
       <<"recent_team", "team">>, <<"team_abbr", "team">> >>

\* a plausible slip: the loop renames without looking for the new name
RECURSIVE RenameColumnsUnchecked(_, _)
RenameColumnsUnchecked(t, mapping) ==
    IF mapping = <<>> THEN t
    ELSE LET old == Head(mapping)[1]
             new == Head(mapping)[2]
         IN  RenameColumnsUnchecked(IF old \in t.cols THEN Rename(t, old, new) ELSE t,
                                    Tail(mapping))

\* the rename loop: old -> new when old is present and new is not
RECURSIVE RenameColumns(_, _)
RenameColumns(t, mapping) ==
    IF mapping = <<>> THEN t
    ELSE LET old == Head(mapping)[1]
             new == Head(mapping)[2]
         IN  RenameColumns(IF old \in t.cols /\ new \notin t.cols
                           THEN Rename(t, old, new) ELSE t,
                           Tail(mapping))

\* rosters[['player_id', 'team', 'position']].drop_duplicates('player_id')
RosterInfo(r) == DropDuplicates(Project(r, {"player_id", "team", "position"}), "player_id")

\* the roster's value of column c for player pid (NaN without a match)
RosterValue(info, pid, c) ==
    IF \E j \in RowIdx(info) : info.rows[j]["player_id"] = pid
    THEN info.rows[CHOOSE j \in RowIdx(info) : info.rows[j]["player_id"] = pid][c]
    ELSE NaN

\* t.merge(info, on='player_id', how='left', suffixes=('', '_roster'))
MergeRoster(t, info) ==
    LET tn == IF "team" \in t.cols THEN "team_roster" ELSE "team"
        pn == IF "position" \in t.cols THEN "position_roster" ELSE "position"
        t1 == WithColumn(t, tn,
                  [i \in RowIdx(t) |-> RosterValue(info, t.rows[i]["player_id"], "team")])
    IN  WithColumn(t1, pn,
            [i \in RowIdx(t) |-> RosterValue(info, t.rows[i]["player_id"], "position")])

\* a plausible slip: the roster's value wins wherever the roster has one
FillFromRosterOverwrite(t, c, cr) ==
    IF cr \in t.cols
    THEN WithColumn(t, c, [i \in RowIdx(t) |->
                              IF IsNa(t.rows[i][cr]) THEN t.rows[i][c] ELSE t.rows[i][cr]])
    ELSE t

\* df[c] = df[c].fillna(df[c + '_roster']) when the merge made a c_roster
FillFromRoster(t, c, cr) ==
    IF cr \in t.cols
    THEN WithColumn(t, c, [i \in RowIdx(t) |->
                              IF IsNa(t.rows[i][c]) THEN t.rows[i][cr] ELSE t.rows[i][c]])
    ELSE t

BackfillFromRoster(t, r) ==
    IF IsEmpty(r) THEN t
    ELSE FillFromRoster(FillFromRoster(MergeRoster(t, RosterInfo(r)),
                                       "team", "team_roster"),
                        "position", "position_roster")

sum_stats ==
    <<"fantasy_points", "fantasy_points_ppr",
      "passing_yards", "passing_tds", "interceptions", "passing_attempts", "completions",
      "rushing_yards", "rushing_tds", "rushing_attempts", "carries",
      "receiving_yards", "receiving_tds", "receptions", "targets",
      "passing_first_downs", "rushing_first_downs", "receiving_first_downs">>

\* the elements of the sequence q that are in S, in order
Available(q, S) == Filter(q, S)

groupby_cols(t) ==
    <<"player_id", "season">>
    \o Available(<<"player_name", "position", "team">>, t.cols)

\* a plausible slip: 'last' for 'sum' in agg_dict
GroupAggregateLast(t, G, stats) ==
    LET keys == GroupKeys(t, G)
        out == SeqToSet(G) \cup SeqToSet(stats) \cup {"games"}
    IN  [cols |-> out,
         rows |-> [g \in 1 .. Len(keys) |->
                     [c \in out |->
                         IF c \in SeqToSet(G) THEN keys[g][c]
                         ELSE IF c = "games"
                         THEN Num(CountCells(GroupColumn(t, G, keys[g], "week")))
                         ELSE GroupColumn(t, G, keys[g], c)[
                                  Len(GroupColumn(t, G, keys[g], c))]]]]

\* df.groupby(G, as_index=False).agg({stat: 'sum', ..., 'week': 'count'})
\* followed by rename(columns={'week': 'games'})
GroupAggregate(t, G, stats) ==
    LET keys == GroupKeys(t, G)
        out == SeqToSet(G) \cup SeqToSet(stats) \cup {"games"}
    IN  [cols |-> out,
         rows |-> [g \in 1 .. Len(keys) |->
                     [c \in out |->
                         IF c \in SeqToSet(G) THEN keys[g][c]
                         ELSE IF c = "games"
                         THEN Num(CountCells(GroupColumn(t, G, keys[g], "week")))
                         ELSE SumCells(GroupColumn(t, G, keys[g], c))]]]

\* df.to_dict('records'): a table without rows is the empty list
ToRecords(t) == IF Len(t.rows) = 0 THEN EmptyTable ELSE t

\* aggregated[stat + '_per_game'] = aggregated[stat] / aggregated['games'],
\* for every stat of the sequence stats
RECURSIVE AddPerGame(_, _)
AddPerGame(t, stats) ==
    IF stats = <<>> THEN t
    ELSE AddPerGame(
             WithColumn(t, Head(stats) \o "_per_game",
                 [i \in RowIdx(t) |-> Div(t.rows[i][Head(stats)], t.rows[i]["games"])]),
             Tail(stats))

\* (a / b * k).fillna(0) of one row
FilledRatio(a, b, k) == Fill0(Times(Div(a, b), k))

\* aggregated[name] = (aggregated[num] / aggregated[den] * k).fillna(0)
WithRatio(t, name, num, den, k) ==
    WithColumn(t, name,
        [i \in RowIdx(t) |-> FilledRatio(t.rows[i][num], t.rows[i][den], k)])

Percent == 100

AddEfficiency(t) ==
    LET t1 == IF {"targets", "receptions"} \subseteq t.cols
              THEN WithRatio(t, "catch_rate", "receptions", "targets", Percent) ELSE t
        t2 == IF {"passing_attempts", "completions"} \subseteq t1.cols
              THEN WithRatio(t1, "completion_rate", "completions", "passing_attempts",
                             Percent)
              ELSE t1
        t3 == IF {"carries", "rushing_yards"} \subseteq t2.cols
              THEN WithRatio(t2, "yards_per_carry", "rushing_yards", "carries", 1)
              ELSE IF {"rushing_attempts", "rushing_yards"} \subseteq t2.cols
              THEN WithRatio(t2, "yards_per_carry", "rushing_yards", "rushing_attempts", 1)
              ELSE t2
        t4 == IF {"targets", "receiving_yards"} \subseteq t3.cols
              THEN WithRatio(t3, "yards_per_target", "receiving_yards", "targets", 1)
              ELSE t3
    IN  IF {"receptions", "receiving_yards"} \subseteq t4.cols
        THEN WithRatio(t4, "yards_per_reception", "receiving_yards", "receptions", 1)
        ELSE t4

\* the season table before the closing fillna(0): the state "at
\* computation time" of the derived columns
AggregatedRaw(w, r) ==
    LET t1 == BackfillFromRoster(RenameColumns(w, column_mapping), r)
        stats == Available(sum_stats, t1.cols)
        agg == GroupAggregate(t1, groupby_cols(t1), stats)
    IN  IF IsEmpty(agg) THEN agg ELSE AddEfficiency(AddPerGame(agg, stats))

\* the lookups that raise KeyError: the roster projection, the merge key,
\* the group keys and the counted 'week' column
AggregateRaises(w, r) ==
    LET t0 == RenameColumns(w, column_mapping)
    IN  \/ ~IsEmpty(r) /\ ~({"player_id", "team", "position"} \subseteq r.cols)
        \/ ~({"player_id", "season", "week"} \subseteq t0.cols)

\* a plausible slip: no early return for an empty table
AggregateUnguarded(w, r) ==
    IF AggregateRaises(w, r) THEN Raised
    ELSE Ok(ToRecords(FillNa0(AggregatedRaw(w, r))))

aggregate_weekly_to_season(w, r) ==
    IF IsEmpty(w) THEN Ok(EmptyTable)
    ELSE IF AggregateRaises(w, r) THEN Raised
    ELSE Ok(ToRecords(FillNa0(AggregatedRaw(w, r))))

----------------------------------------------------------------------------
(* scripts/nfl_data_extractor.py: calculate_team_analytics (roster-based)  *)

\* a plausible slip: the seasonal table tried before the aggregated one
DataSourceSeasonalFirst(w, s, a) ==
    IF ~IsEmpty(s) THEN s ELSE IF Len(a.rows) > 0 THEN a ELSE w

\* the player-level table used: aggregated, else seasonal, else weekly
DataSource(w, s, a) ==
    IF Len(a.rows) > 0 THEN a ELSE IF ~IsEmpty(s) THEN s ELSE w

\* the first of team, team_abbr, recent_team the roster has ("" for none)
RosterTeamCol(r) ==
    IF "team" \in r.cols THEN "team"
    ELSE IF "team_abbr" \in r.cols THEN "team_abbr"
    ELSE IF "recent_team" \in r.cols THEN "recent_team"
    ELSE ""

\* r.set_index('player_id')[c].to_dict() looked up by Series.map: the last
\* roster row of the player, NaN for a player the roster does not list
DictValue(r, c, pid) ==
    LET J == {j \in RowIdx(r) : r.rows[j]["player_id"] = pid}
    IN  IF J = {} THEN NaN
        ELSE r.rows[CHOOSE j \in J : \A k \in J : j >= k][c]

\* a plausible slip: a player without a roster entry is filed under a
\* default team
MapTeamsDefault(ds, r) ==
    WithColumn(ds, "team",
        [i \in RowIdx(ds) |->
            IF \E j \in RowIdx(r) : r.rows[j]["player_id"] = ds.rows[i]["player_id"]
            THEN DictValue(r, RosterTeamCol(r), ds.rows[i]["player_id"])
            ELSE Str("SF")])

\* data_source['team'] = data_source['player_id'].map(player_teams)
MapTeams(ds, r) ==
    WithColumn(ds, "team",
        [i \in RowIdx(ds) |-> DictValue(r, RosterTeamCol(r), ds.rows[i]["player_id"])])

\* Series.dropna().unique(): the values of q that are not missing, each
\* once, in order of first appearance
RECURSIVE Unique(_, _)
Unique(q, seen) ==
    IF q = <<>> THEN <<>>
    ELSE IF IsNa(Head(q)) \/ Head(q) \in seen THEN Unique(Tail(q), seen)
    ELSE <<Head(q)>> \o Unique(Tail(q), seen \cup {Head(q)})

\* the loop's teams: the falsy, empty and missing ones are skipped
TeamsOf(ds) ==
    LET col == Column(ds, "team")
    IN  Filter(Unique(col, {}), SeqToSet(col) \ {Str(""), NaN})

\* team_players[c].sum() if c in team_players.columns else 0
TotalOf(t, c) == IF c \in t.cols THEN SumCells(Column(t, c)) ELSE Num(0)

\* output key and source column of the summed statistics
ScriptTotals ==
    << <<"total_fantasy_points", "fantasy_points">>,
       <<"total_fantasy_points_ppr", "fantasy_points_ppr">>,
       <<"passing_yards", "passing_yards">>,
       <<"passing_tds", "passing_tds">>,
       <<"interceptions_thrown", "interceptions">>,
       <<"rushing_yards", "rushing_yards">>,
       <<"rushing_tds", "rushing_tds">>,
       <<"rushing_attempts", "carries">>,
       <<"receiving_yards", "receiving_yards">>,
       <<"receiving_tds", "receiving_tds">>,
       <<"receptions", "receptions">>,
       <<"targets", "targets">> >>

SourceOf(key) ==
    ScriptTotals[CHOOSE i \in 1 .. Len(ScriptTotals) : ScriptTotals[i][1] = key][2]

OffensiveTotals(tp) ==
    [k \in {ScriptTotals[i][1] : i \in 1 .. Len(ScriptTotals)} |-> TotalOf(tp, SourceOf(k))]

\* num / den * k if den > 0 else 0
GuardedRatio(a, b, k) == IF Positive(b) THEN Times(Div(a, b), k) ELSE Num(0)

ScriptEfficiency(o) ==
    [yards_per_carry |-> GuardedRatio(o["rushing_yards"], o["rushing_attempts"], 1),
     catch_rate |-> GuardedRatio(o["receptions"], o["targets"], Percent),
     yards_per_target |-> GuardedRatio(o["receiving_yards"], o["targets"], 1)]
\* the positions of the team's roster rows, per player: empty when the
\* roster has no 'team' column
PositionOf(r, team, pid) ==
    IF "team" \in r.cols
    THEN DictValue(SelectRows(r, {x \in SeqToSet(r.rows) : x["team"] = team}),
                   "position", pid)
    ELSE NaN

\* team_players_with_pos restricted to one position
PositionRows(tp, r, team, pos) ==
    SelectRows(tp, {x \in SeqToSet(tp.rows) :
                       PositionOf(r, team, x["player_id"]) = Str(pos)})

\* ps[c].sum() if c in ps.columns and not ps.empty else 0
PositionTotal(ps, c) ==
    IF c \in ps.cols /\ ~IsEmpty(ps) THEN SumCells(Column(ps, c)) ELSE Num(0)

PositionBreakdown(tp, r, team) ==
    [qb_fantasy_points |-> PositionTotal(PositionRows(tp, r, team, "QB"), "fantasy_points_ppr"),
     rb_fantasy_points |-> PositionTotal(PositionRows(tp, r, team, "RB"), "fantasy_points_ppr"),
     wr_fantasy_points |-> PositionTotal(PositionRows(tp, r, team, "WR"), "fantasy_points_ppr"),
     te_fantasy_points |-> PositionTotal(PositionRows(tp, r, team, "TE"), "fantasy_points_ppr"),
     rb_touches |-> Add(PositionTotal(PositionRows(tp, r, team, "RB"), "carries"),
                        PositionTotal(PositionRows(tp, r, team, "RB"), "targets")),
     wr_targets |-> PositionTotal(PositionRows(tp, r, team, "WR"), "targets"),
     te_targets |-> PositionTotal(PositionRows(tp, r, team, "TE"), "targets")]

RedZoneCols == {"red_zone_targets", "red_zone_carries", "red_zone_touches"}

RedZone(tp) == [c \in RedZoneCols \cap tp.cols |-> SumCells(Column(tp, c))]

PassHeavyAbove == 60

RunHeavyBelow == 40

\* a plausible slip: the boundary values count as heavy
ClassifyInclusive(pct) ==
    IF pct.n >= PassHeavyAbove * pct.d THEN Str("Pass-Heavy")
    ELSE IF pct.n <= RunHeavyBelow * pct.d THEN Str("Run-Heavy")
    ELSE Str("Balanced")

\* pct > 60, pct < 40, else
classify_offense(pct) ==
    IF pct.n > PassHeavyAbove * pct.d THEN Str("Pass-Heavy")
    ELSE IF pct.n < RunHeavyBelow * pct.d THEN Str("Run-Heavy")
    ELSE Str("Balanced")

ScriptIdentity(o) ==
    LET total == Add(o["passing_yards"], o["rushing_yards"])
        pct == Times(Div(o["passing_yards"], total), Percent)
    IN  IF Positive(total)
        THEN [offensive_identity |-> classify_offense(pct), passing_percentage |-> pct]
        ELSE [offensive_identity |-> Str("Unknown"), passing_percentage |-> Num(0)]

\* one pass of the loop over teams: the dict appended to team_data
ScriptTeamRow(ds, r, team) ==
    LET tp == SelectRows(ds, {x \in SeqToSet(ds.rows) : x["team"] = team})
        o == OffensiveTotals(tp)
    IN  [team |-> team] @@ o @@ ScriptEfficiency(o) @@ PositionBreakdown(tp, r, team)
        @@ RedZone(tp) @@ ScriptIdentity(o)

\* the list of dicts as a table
RecordsTable(rows) ==
    [cols |-> IF Len(rows) = 0 THEN {} ELSE DOMAIN rows[1], rows |-> rows]

\* the lookups that raise KeyError: player_id in the roster and in the data
\* source, and 'position' in the roster rows of a team
ScriptTeamRaises(ds, r) ==
    \/ "player_id" \notin r.cols
    \/ "player_id" \notin ds.cols
    \/ /\ "team" \in r.cols
       /\ "position" \notin r.cols
       /\ Len(TeamsOf(MapTeams(ds, r))) > 0

\* a plausible slip: without the team_col check the roster lookup fails
ScriptTeamUnguarded(w, s, r, a) ==
    IF (IsEmpty(w) /\ IsEmpty(s)) \/ IsEmpty(r) THEN Ok(EmptyTable)
    ELSE IF RosterTeamCol(r) = "" THEN Raised
    ELSE IF ScriptTeamRaises(DataSource(w, s, a), r) THEN Raised
    ELSE LET ds == MapTeams(DataSource(w, s, a), r)
             teams == TeamsOf(ds)
         IN  Ok(RecordsTable([i \in 1 .. Len(teams) |-> ScriptTeamRow(ds, r, teams[i])]))

script_team_analytics(w, s, r, a) ==
    IF (IsEmpty(w) /\ IsEmpty(s)) \/ IsEmpty(r) THEN Ok(EmptyTable)
    ELSE IF RosterTeamCol(r) = "" THEN Ok(EmptyTable)
    ELSE IF ScriptTeamRaises(DataSource(w, s, a), r) THEN Raised
    ELSE LET ds == MapTeams(DataSource(w, s, a), r)
             teams == TeamsOf(ds)
         IN  Ok(RecordsTable([i \in 1 .. Len(teams) |-> ScriptTeamRow(ds, r, teams[i])]))

----------------------------------------------------------------------------
(* python-api/main.py: calculate_team_analytics *)

\* 'team' if present, else 'recent_team' ("" for none)
ApiTeamCol(t) ==
    IF "team" \in t.cols THEN "team"
    ELSE IF "recent_team" \in t.cols THEN "recent_team"
    ELSE ""

stat_columns ==
    <<"fantasy_points", "fantasy_points_ppr", "passing_yards", "passing_tds",
      "interceptions", "rushing_yards", "rushing_tds", "rushing_attempts",
      "receiving_yards", "receiving_tds", "receptions", "targets">>

\* df.groupby(G).agg({stat: 'sum', ...}).reset_index()
GroupSum(t, G, stats) ==
    LET keys == GroupKeys(t, G)
        out == SeqToSet(G) \cup SeqToSet(stats)
    IN  [cols |-> out,
         rows |-> [g \in 1 .. Len(keys) |->
                     [c \in out |->
                         IF c \in SeqToSet(G) THEN keys[g][c]
                         ELSE SumCells(GroupColumn(t, G, keys[g], c))]]]

\* aggregated_df.groupby(team_col).agg(agg_dict).reset_index()
TeamStats(t, tc, stats) == GroupSum(t, <<tc>>, stats)

\* the three np.where ratios, each only when its base columns exist
ApiRatios(ts) ==
    LET t1 == IF {"rushing_yards", "rushing_attempts"} \subseteq ts.cols
              THEN WithColumn(ts, "yards_per_carry",
                       [i \in RowIdx(ts) |->
                           GuardedRatio(ts.rows[i]["rushing_yards"],
                                        ts.rows[i]["rushing_attempts"], 1)])
              ELSE ts
        t2 == IF {"receptions", "targets"} \subseteq t1.cols
              THEN WithColumn(t1, "catch_rate",
                       [i \in RowIdx(t1) |->
                           GuardedRatio(t1.rows[i]["receptions"],
                                        t1.rows[i]["targets"], 1)])
              ELSE t1
    IN  IF {"receiving_yards", "targets"} \subseteq t2.cols
        THEN WithColumn(t2, "yards_per_target",
                 [i \in RowIdx(t2) |->
                     GuardedRatio(t2.rows[i]["receiving_yards"],
                                  t2.rows[i]["targets"], 1)])
        ELSE t2

\* aggregated_df[aggregated_df['position'] == pos]
PosDf(t, pos) == SelectRows(t, {x \in SeqToSet(t.rows) : x["position"] = Str(pos)})

\* team_stats[tc].map(pos_df.groupby(tc)[c].sum()).fillna(0) of one team
PosTeamSum(pd, tc, team, c) ==
    SumCells(Column(SelectRows(pd, {x \in SeqToSet(pd.rows) : x[tc] = team}), c))

\* the same with the lambda (x['rushing_attempts'] + x['receptions']).sum()
PosTeamTouches(pd, tc, team) ==
    LET g == SelectRows(pd, {x \in SeqToSet(pd.rows) : x[tc] = team})
    IN  SumCells([i \in RowIdx(g) |->
                     Add(g.rows[i]["rushing_attempts"], g.rows[i]["receptions"])])

\* one position column, added when the position has rows and the column
WithPosColumn(ts, t, tc, pos, name, c) ==
    IF ~IsEmpty(PosDf(t, pos)) /\ c \in t.cols
    THEN WithColumn(ts, name,
             [i \in RowIdx(ts) |-> PosTeamSum(PosDf(t, pos), tc, ts.rows[i][tc], c)])
    ELSE ts

ApiPositions(ts, t, tc) ==
    LET t1 == WithPosColumn(ts, t, tc, "QB", "qb_fantasy_points", "fantasy_points_ppr")
        t2 == WithPosColumn(t1, t, tc, "RB", "rb_fantasy_points", "fantasy_points_ppr")
        t3 == WithPosColumn(t2, t, tc, "WR", "wr_fantasy_points", "fantasy_points_ppr")
        t4 == WithPosColumn(t3, t, tc, "TE", "te_fantasy_points", "fantasy_points_ppr")
        t5 == IF ~IsEmpty(PosDf(t, "RB"))
                 /\ {"rushing_attempts", "receptions"} \subseteq t.cols
              THEN WithColumn(t4, "rb_touches",
                       [i \in RowIdx(t4) |->
                           PosTeamTouches(PosDf(t, "RB"), tc, t4.rows[i][tc])])
              ELSE t4
        t6 == WithPosColumn(t5, t, tc, "WR", "wr_targets", "targets")
    IN  WithPosColumn(t6, t, tc, "TE", "te_targets", "targets")

\* a plausible slip: the other implementation's label for a team without
\* yardage
ApiIdentityUnknown(ts) ==
    IF {"passing_yards", "rushing_yards"} \subseteq ts.cols
    THEN LET total == [i \in RowIdx(ts) |->
                          Add(ts.rows[i]["passing_yards"], ts.rows[i]["rushing_yards"])]
             pct == [i \in RowIdx(ts) |->
                        GuardedRatio(ts.rows[i]["passing_yards"], total[i], Percent)]
         IN  WithColumn(WithColumn(ts, "passing_percentage", pct),
                        "offensive_identity",
                        [i \in RowIdx(ts) |->
                            IF Positive(total[i]) THEN classify_offense(pct[i])
                            ELSE Str("Unknown")])
    ELSE ts

\* passing_percentage and offensive_identity, when both yardages exist
ApiIdentity(ts) ==
    IF {"passing_yards", "rushing_yards"} \subseteq ts.cols
    THEN LET pct == [i \in RowIdx(ts) |->
                        GuardedRatio(ts.rows[i]["passing_yards"],
                                     Add(ts.rows[i]["passing_yards"],
                                         ts.rows[i]["rushing_yards"]),
                                     Percent)]
         IN  WithColumn(WithColumn(ts, "passing_percentage", pct),
                        "offensive_identity",
                        [i \in RowIdx(ts) |-> classify_offense(pct[i])])
    ELSE ts

api_team_analytics(t) ==
    IF IsEmpty(t) THEN Ok(EmptyTable)
    ELSE IF ApiTeamCol(t) = "" THEN Ok(EmptyTable)
    ELSE IF Available(stat_columns, t.cols) = <<>> THEN Ok(EmptyTable)
    ELSE IF "position" \notin t.cols THEN Raised
    ELSE LET tc == ApiTeamCol(t)
             ts == TeamStats(t, tc, Available(stat_columns, t.cols))
         IN  Ok(ToRecords(
                 sanitize_dataframe(ApiIdentity(ApiPositions(ApiRatios(ts), t, tc))).df))

----------------------------------------------------------------------------
(* python-api/main.py: extract_nfl_data, the steps between fetch and      *)
(* return                                                                  *)

\* df[df[c].isin(P)]
IsIn(t, c, P) ==
    SelectRows(t, {x \in SeqToSet(t.rows) : x[c].t = "str" /\ x[c].s \in P})

\* the position filter of the three fetched tables
ApiPositionFilter(t, P) ==
    IF ~IsEmpty(t) /\ "position" \in t.cols THEN IsIn(t, "position", P) ELSE t

\* a week filter that needs a row of the week to exist
ApiWeekFilterStrict(t, wk) ==
    IF IsNa(wk) THEN Ok(t)
    ELSE IF "week" \in t.cols /\ \E x \in SeqToSet(t.rows) : x["week"] = wk
    THEN Ok(SelectRows(t, {x \in SeqToSet(t.rows) : x["week"] = wk}))
    ELSE Raised

\* weekly_df[weekly_df['week'] == week], a KeyError without the column
ApiWeekFilter(t, wk) ==
    IF IsNa(wk) THEN Ok(t)
    ELSE IF "week" \in t.cols
    THEN Ok(SelectRows(t, {x \in SeqToSet(t.rows) : x["week"] = wk}))
    ELSE Raised

api_groupby_cols(t) ==
    <<"player_id">>
    \o Available(<<"player_name", "player_display_name", "position", "recent_team",
                   "team", "season">>, t.cols)

\* the season totals per player, or an empty frame
ApiAggregated(w) ==
    IF ~IsEmpty(w) /\ Available(stat_columns, w.cols) # <<>>
    THEN IF "player_id" \in w.cols
         THEN Ok(GroupSum(w, api_groupby_cols(w), Available(stat_columns, w.cols)))
         ELSE Raised
    ELSE Ok(EmptyTable)

----------------------------------------------------------------------------
(* scripts/nfl_data_extractor.py: extract_player_stats and the three      *)
(* process_* functions                                                     *)

Excluded == {"K", "DEF"}

\* the position filter: by position, else by fantasy_pos, else none
ScriptPositionFilter(t, P) ==
    IF "position" \in t.cols THEN IsIn(t, "position", P \ Excluded)
    ELSE IF "fantasy_pos" \in t.cols THEN IsIn(t, "fantasy_pos", P \ Excluded)
    ELSE t

\* the week filter, skipped without a week or without the column
ScriptWeekFilter(t, wk) ==
    IF ~IsNa(wk) /\ "week" \in t.cols
    THEN SelectRows(t, {x \in SeqToSet(t.rows) : x["week"] = wk})
    ELSE t

\* aggregated only when there are week rows and no week was asked for
ScriptAggregated(w, r, wk) ==
    IF ~IsEmpty(w) /\ IsNa(wk) THEN aggregate_weekly_to_season(w, r)
    ELSE Ok(EmptyTable)

weekly_relevant ==
    {"player_id", "player_name", "position", "team", "season", "week",
     "fantasy_points", "fantasy_points_ppr",
     "passing_yards", "passing_tds", "interceptions", "passing_attempts", "completions",
     "passing_air_yards", "passing_yards_after_catch", "passing_first_downs",
     "rushing_yards", "rushing_tds", "rushing_attempts", "rushing_first_downs",
     "rushing_epa", "rushing_yards_after_contact",
     "receiving_yards", "receiving_tds", "receptions", "targets",
     "receiving_air_yards", "receiving_yards_after_catch", "receiving_first_downs",
     "receiving_epa", "target_share",
     "red_zone_touches", "red_zone_targets", "red_zone_carries",
     "snap_counts", "snap_count_pct",
     "carries", "air_yards_share", "wopr"}

seasonal_relevant ==
    {"player_id", "player_name", "position", "team", "season", "games",
     "fantasy_points", "fantasy_points_ppr",
     "passing_yards", "passing_tds", "interceptions", "passing_attempts", "completions",
     "passing_air_yards", "passing_yards_after_catch", "passing_first_downs",
     "passing_epa", "dakota",
     "rushing_yards", "rushing_tds", "rushing_attempts", "rushing_first_downs",
     "rushing_epa", "rushing_yards_after_contact",
     "receiving_yards", "receiving_tds", "receptions", "targets",
     "receiving_air_yards", "receiving_yards_after_catch", "receiving_first_downs",
     "receiving_epa", "target_share",
     "red_zone_touches", "red_zone_targets", "red_zone_carries",
     "air_yards_share", "wopr", "racr"}

player_relevant ==
    {"player_id", "player_name", "position", "team", "jersey_number",
     "height", "weight", "birth_date", "college", "season"}

\* df[name] = df.apply(lambda row: row[num] / row[den] * k
\*                                 if row[den] > 0 else 0, axis=1),
\* when both columns are there
WithGuardedRatio(t, name, num, den, k) ==
    IF {num, den} \subseteq t.cols
    THEN WithColumn(t, name,
             [i \in RowIdx(t) |-> GuardedRatio(t.rows[i][num], t.rows[i][den], k)])
    ELSE t

\* df_processed[available_columns].fillna(0)
RelevantFilled(t, relevant) ==
    FillNa0(Project(RenameColumns(t, column_mapping),
                    RenameColumns(t, column_mapping).cols \cap relevant))

process_weekly_stats(t) ==
    IF IsEmpty(t) THEN EmptyTable
    ELSE ToRecords(
             WithGuardedRatio(
                 WithGuardedRatio(RelevantFilled(t, weekly_relevant),
                                  "catch_rate", "receptions", "targets", Percent),
                 "completion_rate", "completions", "passing_attempts", Percent))

per_game_stats ==
    <<"fantasy_points", "fantasy_points_ppr", "passing_yards", "rushing_yards",
      "receiving_yards", "targets", "receptions">>

\* the guarded per-game averages, when the table has a games column
RECURSIVE WithPerGame(_, _)
WithPerGame(t, stats) ==
    IF stats = <<>> \/ "games" \notin t.cols THEN t
    ELSE WithPerGame(WithGuardedRatio(t, Head(stats) \o "_per_game",
                                      Head(stats), "games", 1),
                     Tail(stats))

process_seasonal_stats(t) ==
    IF IsEmpty(t) THEN EmptyTable
    ELSE LET t1 == WithPerGame(RelevantFilled(t, seasonal_relevant), per_game_stats)
             t2 == WithGuardedRatio(t1, "catch_rate", "receptions", "targets", Percent)
             t3 == WithGuardedRatio(t2, "completion_rate", "completions",
                                    "passing_attempts", Percent)
             t4 == WithGuardedRatio(t3, "yards_per_carry", "rushing_yards",
                                    "rushing_attempts", 1)
         IN  ToRecords(WithGuardedRatio(t4, "yards_per_target", "receiving_yards",
                                        "targets", 1))

player_mapping == column_mapping \o << <<"full_name", "player_name">> >>

\* row i sorts before row j by season: missing seasons last, ties in row
\* order (the sort of a short column is an insertion sort)
SeasonBefore(t, i, j) ==
    LET a == t.rows[i]["season"]
        b == t.rows[j]["season"]
    IN  IF IsNa(a) /\ IsNa(b) THEN i < j
        ELSE IF IsNa(a) THEN FALSE
        ELSE IF IsNa(b) THEN TRUE
        ELSE CellLess(a, b) \/ (~CellLess(b, a) /\ i < j)

\* the row positions I of t in sort_values('season') order
RECURSIVE SeasonOrder(_, _)
SeasonOrder(t, I) ==
    IF I = {} THEN <<>>
    ELSE LET m == CHOOSE i \in I : \A j \in I \ {i} : SeasonBefore(t, i, j)
         IN  <<m>> \o SeasonOrder(t, I \ {m})

\* df.sort_values('season') when there is a season column
SortedBySeason(t) ==
    IF "season" \in t.cols
    THEN [cols |-> t.cols,
          rows |-> [k \in RowIdx(t) |-> t.rows[SeasonOrder(t, RowIdx(t))[k]]]]
    ELSE t

\* GroupBy.last() of one column: the last value that is not missing
RECURSIVE LastValid(_)
LastValid(q) ==
    IF q = <<>> THEN NaN
    ELSE IF IsNa(q[Len(q)]) THEN LastValid(SubSeq(q, 1, Len(q) - 1))
    ELSE q[Len(q)]

\* df.groupby('player_id').last().reset_index()
LatestInfo(t) ==
    LET keys == GroupKeys(t, <<"player_id">>)
    IN  [cols |-> t.cols,
         rows |-> [g \in 1 .. Len(keys) |->
                     [c \in t.cols |->
                         IF c = "player_id" THEN keys[g]["player_id"]
                         ELSE LastValid(GroupColumn(t, <<"player_id">>, keys[g], c))]]]

\* df.fillna('')
FillNaEmpty(t) ==
    MapCells(t, [c \in CellsIn(t) |-> IF IsNa(c) THEN Str("") ELSE c])

process_player_info(t) ==
    IF IsEmpty(t) THEN Ok(EmptyTable)
    ELSE IF "player_id" \notin RenameColumns(t, player_mapping).cols THEN Raised
    ELSE LET latest == LatestInfo(SortedBySeason(RenameColumns(t, player_mapping)))
         IN  Ok(ToRecords(FillNaEmpty(Project(latest, latest.cols \cap player_relevant))))

----------------------------------------------------------------------------
(* Season aggregator harness: a per-week table of one of the provider's    *)
(* stat schemas, with or without a roster, aggregated.                     *)

MaxWeekRows == 2

Season == 2023

\* the stat columns a per-week table may carry
StatSchemas ==
    {{"carries", "rushing_yards"},
     {"rushing_attempts", "rushing_yards"},
     {"carries", "rushing_attempts", "rushing_yards"},
     {"targets", "receptions", "receiving_yards"},
     {"passing_attempts", "completions"},
     {}}

StatCells == {Num(0), Num(1)}

PlayerIds == {Str("p1"), Str("p2")}

WeekRows(stats) ==
    {r \in [{"player_id", "season", "week"} \cup stats -> PlayerIds \cup StatCells \cup {Num(Season)}] :
        /\ r["player_id"] \in PlayerIds
        /\ r["season"] = Num(Season)
        /\ r["week"] = Num(1)
        /\ \A c \in stats : r[c] \in StatCells}

WeeklyTables ==
    UNION {{[cols |-> {"player_id", "season", "week"} \cup st, rows |-> rs] :
               rs \in SeqsUpTo(WeekRows(st), MaxWeekRows)} : st \in StatSchemas}

\* week-rows that carry their own team and position (keys: both, or team
\* only), each present or missing
KeyedWeekRows(keys) ==
    {[player_id |-> p, season |-> Num(Season), week |-> Num(1), carries |-> Num(1)] @@ k :
        p \in PlayerIds,
        k \in {x \in [keys -> {NaN, Str("SF"), Str("WR")}] :
                  /\ "team" \in keys => x["team"] # Str("WR")
                  /\ "position" \in keys => x["position"] # Str("SF")}}

KeyedWeeklyTables ==
    UNION {{[cols |-> {"player_id", "season", "week", "carries"} \cup keys, rows |-> rs] :
               rs \in SeqsUpTo(KeyedWeekRows(keys), MaxWeekRows) \ {<<>>}} :
           keys \in {{"team", "position"}, {"team"}}}

\* one week-row of player p1 whose week is missing
NullWeekTables ==
    {[cols |-> {"player_id", "season", "week", "carries", "rushing_yards"},
      rows |-> <<[player_id |-> Str("p1"), season |-> Num(Season), week |-> NaN,
                  carries |-> Num(1), rushing_yards |-> y]>>] : y \in StatCells}

\* a roster that knows player p1 only, and lists p1 twice
RosterP1 ==
    [cols |-> {"player_id", "team", "position"},
     rows |-> <<[player_id |-> Str("p1"), team |-> Str("KC"), position |-> Str("RB")],
                [player_id |-> Str("p1"), team |-> Str("DEF"), position |-> Str("TE")]>>]

InitAggregate ==
    /\ pc = "start"
    /\ NoSanitize
    /\ weekly_stats \in WeeklyTables \cup KeyedWeeklyTables \cup NullWeekTables
                       \cup {EmptyTable}
    /\ rosters \in {EmptyTable, RosterP1}
    /\ seasonal_stats = EmptyTable
    /\ aggregated_season_stats = EmptyTable
    /\ team_analytics = EmptyTable
    /\ raised = FALSE
    /\ request = DefaultRequest
    /\ applied = NoSteps
    /\ NoRequest

\* aggregated_season_stats = aggregate_weekly_to_season(weekly_stats, rosters)
CallAggregate ==
    /\ pc = "start"
    /\ aggregated_season_stats' = aggregate_weekly_to_season(weekly_stats, rosters).table
    /\ raised' = aggregate_weekly_to_season(weekly_stats, rosters).raised
    /\ pc' = "aggregated"
    /\ UNCHANGED <<sanVars, weekly_stats, seasonal_stats, rosters, team_analytics,
                   request, applied>>
    /\ UNCHANGED envVars

\* main.py: aggregated_df = weekly_df.groupby(groupby_cols).agg(agg_dict)
CallApiAggregate ==
    /\ pc = "start"
    /\ aggregated_season_stats' = ApiAggregated(weekly_stats).table
    /\ raised' = ApiAggregated(weekly_stats).raised
    /\ pc' = "api_aggregated"
    /\ UNCHANGED <<sanVars, weekly_stats, seasonal_stats, rosters, team_analytics,
                   request, applied>>
    /\ UNCHANGED envVars

NextAggregate == CallAggregate \/ CallApiAggregate

SpecAggregate == InitAggregate /\ [][NextAggregate]_vars

----------------------------------------------------------------------------
(* Properties of the season aggregator *)

\* the efficiency ratios: name, numerator, denominator
EfficiencyRatios ==
    {<<"catch_rate", "receptions", "targets">>,
     <<"completion_rate", "completions", "passing_attempts">>,
     <<"yards_per_target", "receiving_yards", "targets">>,
     <<"yards_per_reception", "receiving_yards", "receptions">>}

\* the denominator column of yards_per_carry in table t
CarryColumn(t) == IF "carries" \in t.cols THEN "carries" ELSE "rushing_attempts"

\* C7: in every row of the season aggregate, an efficiency ratio whose
\* denominator sum is 0 equals exactly 0.0, whatever the numerator.
C7_ZeroDenominatorRatioIsZero ==
    pc = "aggregated" =>
        \A i \in RowIdx(aggregated_season_stats) :
            LET row == aggregated_season_stats.rows[i]
                cols == aggregated_season_stats.cols
            IN  /\ \A q \in EfficiencyRatios :
                      q[1] \in cols /\ row[q[3]] = Num(0) => row[q[1]] = Num(0)
                /\ "yards_per_carry" \in cols
                      /\ row[CarryColumn(aggregated_season_stats)] = Num(0)
                      => row["yards_per_carry"] = Num(0)

----------------------------------------------------------------------------
(* Team rollup harness: one per-player season table handed to both        *)
(* calculate_team_analytics implementations.                               *)

MaxPlayerRows == 2

\* the player tables' shapes: team column, positions (none: no position
\* column), stat columns and the values a stat cell takes
TeamSchemas ==
    {[tc |-> "team", pos |-> {"RB", "WR"}, stats |-> {"fantasy_points_ppr"},
      cells |-> {Num(1), Num(2)}],
     [tc |-> "team", pos |-> {"WR"},
      stats |-> {"receptions", "targets", "receiving_yards"},
      cells |-> {Num(0), Num(1), Num(2)}],
     [tc |-> "team", pos |-> {"RB"},
      stats |-> {"rushing_yards", "rushing_attempts", "carries"},
      cells |-> {Num(0), Num(1)}],
     [tc |-> "team", pos |-> {"QB"}, stats |-> {"passing_yards", "rushing_yards"},
      cells |-> {Num(0), Num(2), Num(3)}],
     [tc |-> "team", pos |-> {"RB"},
      stats |-> {"rushing_attempts", "carries", "receptions", "targets"},
      cells |-> {Num(0), Num(1), Num(2)}],
     [tc |-> "team", pos |-> {"RB"}, stats |-> {}, cells |-> {}],
     [tc |-> "recent_team", pos |-> {"RB"}, stats |-> {"fantasy_points_ppr"},
      cells |-> {Num(1)}],
     [tc |-> "team", pos |-> {}, stats |-> {"fantasy_points_ppr"},
      cells |-> {Num(1)}],
     [tc |-> "", pos |-> {"RB"}, stats |-> {"fantasy_points_ppr"},
      cells |-> {Num(1)}]}

TeamCells == {Str("KC"), Str("SF"), NaN}

\* p3 is a player the roster of the harness does not list
TeamPlayerIds == PlayerIds \cup {Str("p3")}

SchemaCols(sc) ==
    {"player_id"} \cup (IF sc.tc = "" THEN {} ELSE {sc.tc})
    \cup (IF sc.pos # {} THEN {"position"} ELSE {}) \cup sc.stats

\* the identifying cells of a row
KeyRows(sc) ==
    {[c \in SchemaCols(sc) \ sc.stats |->
         IF c = "player_id" THEN p ELSE IF c = "position" THEN Str(q) ELSE t] :
     p \in TeamPlayerIds, t \in TeamCells,
     q \in IF sc.pos = {} THEN {""} ELSE sc.pos}

\* the stat cells of a row; receptions never exceed targets, there are no
\* receiving yards without a reception, carries and rushing_attempts are
\* the same count, and a row with yardage has 3 and 2, 2 and 3 or 3 and 0
\* yards
StatRows(sc) ==
    {r \in [sc.stats -> sc.cells] :
        /\ {"receptions", "targets"} \subseteq sc.stats
              => /\ r["receptions"].n <= r["targets"].n
                 /\ r["targets"] # Num(1)
                 /\ r["receptions"] # Num(2)
        /\ "receiving_yards" \in sc.stats
              => (r["receptions"] = Num(0) <=> r["receiving_yards"] = Num(0))
        /\ {"rushing_attempts", "carries"} \subseteq sc.stats
              => r["rushing_attempts"] = r["carries"] /\ r["carries"] # Num(2)
        /\ {"passing_yards", "rushing_yards"} \subseteq sc.stats
              => <<r["passing_yards"].n, r["rushing_yards"].n>>
                    \in {<<0, 0>>, <<3, 2>>, <<2, 3>>, <<3, 0>>, <<0, 3>>}}

PlayerRows(sc) == {k @@ r : k \in KeyRows(sc), r \in StatRows(sc)}

\* the season table has one row per player
PlayerTables ==
    UNION {{[cols |-> SchemaCols(sc), rows |-> rs] :
               rs \in {q \in SeqsUpTo(PlayerRows(sc), MaxPlayerRows) :
                          \A i, j \in DOMAIN q :
                              i < j => CellLess(q[i]["player_id"], q[j]["player_id"])}} :
           sc \in TeamSchemas}

\* the roster of the harness: p1 plays for KC, p2 for SF
TeamRoster ==
    [cols |-> {"player_id", "team", "position"},
     rows |-> <<[player_id |-> Str("p1"), team |-> Str("KC"), position |-> Str("RB")],
                [player_id |-> Str("p2"), team |-> Str("SF"), position |-> Str("WR")]>>]

InitTeam ==
    /\ pc = "start"
    /\ NoSanitize
    /\ aggregated_season_stats \in PlayerTables
    /\ weekly_stats = aggregated_season_stats
    /\ seasonal_stats = EmptyTable
    /\ rosters = TeamRoster
    /\ team_analytics = EmptyTable
    /\ raised = FALSE
    /\ request = DefaultRequest
    /\ applied = NoSteps
    /\ NoRequest

\* team_analytics = calculate_team_analytics(aggregated_df)
CallApiTeam ==
    /\ pc = "start"
    /\ team_analytics' = api_team_analytics(aggregated_season_stats).table
    /\ raised' = api_team_analytics(aggregated_season_stats).raised
    /\ pc' = "api_done"
    /\ UNCHANGED <<sanVars, weekly_stats, seasonal_stats, rosters, aggregated_season_stats,
                   request, applied>>
    /\ UNCHANGED envVars

\* team_analytics = calculate_team_analytics(weekly_stats, seasonal_stats,
\*                                           rosters, aggregated_season_stats)
CallScriptTeam ==
    /\ pc = "start"
    /\ team_analytics' = script_team_analytics(weekly_stats, seasonal_stats, rosters,
                                               aggregated_season_stats).table
    /\ raised' = script_team_analytics(weekly_stats, seasonal_stats, rosters,
                                       aggregated_season_stats).raised
    /\ pc' = "script_done"
    /\ UNCHANGED <<sanVars, weekly_stats, seasonal_stats, rosters, aggregated_season_stats,
                   request, applied>>
    /\ UNCHANGED envVars

NextTeam == CallApiTeam \/ CallScriptTeam

SpecTeam == InitTeam /\ [][NextTeam]_vars

----------------------------------------------------------------------------
(* Roster harness: the roster-based rollup over every small roster, with  *)
(* three players' fantasy points in the weekly, seasonal and aggregated   *)
(* tables.                                                                 *)

MaxRosterRows == 2

\* the column sets a roster may have
RosterShapes ==
    {{"player_id", "team", "position"},
     {"player_id", "team_abbr", "position"},
     {"player_id", "recent_team", "position"},
     {"player_id", "position"},
     {"player_id", "team"},
     {"team", "position"}}

RosterTeamCells == {Str("KC"), Str("SF"), Str(""), NaN}

RosterRows(shape) ==
    {[c \in shape |->
         IF c = "player_id" THEN p ELSE IF c = "position" THEN Str("RB") ELSE t] :
     p \in PlayerIds, t \in RosterTeamCells}

RosterTables ==
    UNION {{[cols |-> shape, rows |-> rs] :
               rs \in SeqsUpTo(RosterRows(shape), MaxRosterRows)} :
           shape \in RosterShapes}

\* fantasy points k, 2k and 4k for p1, p2 and p3: a sum tells which rows
\* of which table went into it
PointsTable(k) ==
    [cols |-> {"player_id", "fantasy_points"},
     rows |-> <<[player_id |-> Str("p1"), fantasy_points |-> Num(k)],
                [player_id |-> Str("p2"), fantasy_points |-> Num(2 * k)],
                [player_id |-> Str("p3"), fantasy_points |-> Num(4 * k)]>>]

\* the same with the provider's recent_team and position columns
TeamPointsTable(k) ==
    [cols |-> PointsTable(k).cols \cup {"recent_team", "position"},
     rows |-> [i \in RowIdx(PointsTable(k)) |->
                  PointsTable(k).rows[i]
                      @@ [recent_team |-> IF i = 3 THEN Str("SF") ELSE Str("KC"),
                          position |-> Str("RB")]]]

\* the tables that came back filled: weekly, seasonal, aggregated, on
\* scales 1, 8 and 64
SourceCases ==
    {<<PointsTable(1), EmptyTable, EmptyTable>>,
     <<EmptyTable, PointsTable(8), EmptyTable>>,
     <<PointsTable(1), PointsTable(8), EmptyTable>>,
     <<PointsTable(1), PointsTable(8), PointsTable(64)>>,
     <<TeamPointsTable(1), EmptyTable, TeamPointsTable(64)>>,
     <<EmptyTable, EmptyTable, EmptyTable>>}

InitRoster ==
    /\ pc = "start"
    /\ NoSanitize
    /\ rosters \in RosterTables
    /\ \E sc \in SourceCases :
          /\ weekly_stats = sc[1]
          /\ seasonal_stats = sc[2]
          /\ aggregated_season_stats = sc[3]
    /\ team_analytics = EmptyTable
    /\ raised = FALSE
    /\ request = DefaultRequest
    /\ applied = NoSteps
    /\ NoRequest

\* team_analytics = calculate_team_analytics(weekly_stats, seasonal_stats,
\*                                           rosters, aggregated_season_stats)
CallScriptRoster ==
    /\ pc = "start"
    /\ team_analytics' = script_team_analytics(weekly_stats, seasonal_stats, rosters,
                                               aggregated_season_stats).table
    /\ raised' = script_team_analytics(weekly_stats, seasonal_stats, rosters,
                                       aggregated_season_stats).raised
    /\ pc' = "script_done"
    /\ UNCHANGED <<sanVars, weekly_stats, seasonal_stats, rosters, aggregated_season_stats,
                   request, applied>>
    /\ UNCHANGED envVars

NextRoster == CallScriptRoster \/ CallApiTeam

SpecRoster == InitRoster /\ [][NextRoster]_vars

----------------------------------------------------------------------------
(* Pipeline harness: one invocation of either pipeline over the tables    *)
(* the provider returned, from the fetch to the response.                  *)

MaxFetchRows == 2

\* a week row of player p1: a kicker's, or a running back's with a finite
\* or an infinite yardage
FetchRows ==
    {[player_id |-> Str("p1"), season |-> Num(Season), week |-> Num(1),
      position |-> Str("RB"), recent_team |-> Str("KC"), carries |-> c,
      rushing_yards |-> y] :
     c \in {Num(0), Num(1)}, y \in {Num(1), PosInf}}
    \cup {[player_id |-> Str("p1"), season |-> Num(Season), week |-> Num(1),
            position |-> Str("K"), recent_team |-> Str("KC"), carries |-> Num(0),
            rushing_yards |-> Num(1)]}

\* the k-th row of a fetched table is the row of week k
FetchedWeekly ==
    {[cols |-> {"player_id", "season", "week", "position", "recent_team", "carries",
                "rushing_yards"},
      rows |-> [k \in DOMAIN rs |-> [rs[k] EXCEPT !["week"] = Num(k)]]] :
     rs \in SeqsUpTo(FetchRows, MaxFetchRows)}

\* a season row of p1 whose attempts are missing
SeasonalP1 ==
    [cols |-> {"player_id", "season", "position", "games", "rushing_yards",
               "rushing_attempts"},
     rows |-> <<[player_id |-> Str("p1"), season |-> Num(Season), position |-> Str("RB"),
                 games |-> Num(1), rushing_yards |-> Num(1), rushing_attempts |-> NaN]>>]

InitPipeline ==
    /\ pc = "start"
    /\ NoSanitize
    /\ weekly_stats \in FetchedWeekly
    /\ seasonal_stats \in {EmptyTable, SeasonalP1}
    /\ rosters \in {EmptyTable, RosterP1}
    /\ aggregated_season_stats = EmptyTable
    /\ team_analytics = EmptyTable
    /\ raised = FALSE
    /\ request \in {[positions |-> DefaultPositions, week |-> wk] : wk \in {NaN, Num(1)}}
    /\ applied = NoSteps
    /\ NoRequest

\* an exception ends the invocation: no table is handed to the caller
Fail(at) ==
    /\ pc' = at
    /\ raised' = TRUE
    /\ weekly_stats' = EmptyTable
    /\ seasonal_stats' = EmptyTable
    /\ rosters' = EmptyTable
    /\ aggregated_season_stats' = EmptyTable
    /\ team_analytics' = EmptyTable
    /\ applied' = NoSteps

\* main.py: each table is fetched, validated and filtered
ApiFetch ==
    /\ pc = "start"
    /\ LET w == ApiWeekFilter(ApiPositionFilter(weekly_stats, request.positions),
                              request.week)
       IN  IF w.raised
           THEN /\ Fail("api_failed")
                /\ log' = validate_nfl_data(weekly_stats).log
           ELSE /\ weekly_stats' = w.table
                /\ seasonal_stats' = ApiPositionFilter(seasonal_stats, request.positions)
                /\ rosters' = ApiPositionFilter(rosters, request.positions)
                /\ log' = validate_nfl_data(weekly_stats).log
                          \cup validate_nfl_data(seasonal_stats).log
                          \cup validate_nfl_data(rosters).log
                /\ applied' = [applied EXCEPT !["weekly_stats"] = "filter",
                                              !["seasonal_stats"] = "filter",
                                              !["player_info"] = "filter"]
                /\ pc' = "api_fetched"
                /\ UNCHANGED <<aggregated_season_stats, team_analytics, raised>>
    /\ UNCHANGED <<df, sanitized_df, quality_metrics, request>>
    /\ UNCHANGED envVars

\* main.py: the weekly rows are summed per player
ApiAggregate ==
    /\ pc = "api_fetched"
    /\ IF ApiAggregated(weekly_stats).raised
       THEN Fail("api_failed")
       ELSE /\ aggregated_season_stats' = ApiAggregated(weekly_stats).table
            /\ applied' = [applied EXCEPT !["aggregated_season_stats"] = "aggregate"]
            /\ pc' = "api_aggregated"
            /\ UNCHANGED <<weekly_stats, seasonal_stats, rosters, team_analytics, raised>>
    /\ UNCHANGED <<sanVars, request>>
    /\ UNCHANGED envVars

\* calculate_team_analytics reaches its closing sanitize_dataframe call
ApiTeamSanitizes(t) ==
    ~IsEmpty(t) /\ ApiTeamCol(t) # "" /\ Available(stat_columns, t.cols) # <<>>

\* main.py: team_analytics = calculate_team_analytics(aggregated_df)
ApiTeam ==
    /\ pc = "api_aggregated"
    /\ IF api_team_analytics(aggregated_season_stats).raised
       THEN Fail("api_failed")
       ELSE /\ team_analytics' = api_team_analytics(aggregated_season_stats).table
            /\ applied' = [applied EXCEPT !["team_analytics"] =
                              IF ApiTeamSanitizes(aggregated_season_stats)
                              THEN "sanitize" ELSE "rollup"]
            /\ pc' = "api_rolled"
            /\ UNCHANGED <<weekly_stats, seasonal_stats, rosters, aggregated_season_stats,
                           raised>>
    /\ UNCHANGED <<sanVars, request>>
    /\ UNCHANGED envVars

\* main.py: the four tables are sanitized, turned into records and
\* returned; the metadata reads the roster's player_id
ApiSanitizeReturn ==
    /\ pc = "api_rolled"
    /\ IF ~IsEmpty(rosters) /\ "player_id" \notin rosters.cols
       THEN Fail("api_failed") /\ UNCHANGED quality_metrics
       ELSE /\ weekly_stats' = ToRecords(sanitize_dataframe(weekly_stats).df)
            /\ seasonal_stats' = ToRecords(sanitize_dataframe(seasonal_stats).df)
            /\ aggregated_season_stats'
                 = ToRecords(sanitize_dataframe(aggregated_season_stats).df)
            /\ rosters' = ToRecords(sanitize_dataframe(rosters).df)
            /\ quality_metrics'
                 = [weekly |-> sanitize_dataframe(weekly_stats).metrics,
                    seasonal |-> sanitize_dataframe(seasonal_stats).metrics,
                    aggregated |-> sanitize_dataframe(aggregated_season_stats).metrics,
                    roster |-> sanitize_dataframe(rosters).metrics]
            /\ applied' = [applied EXCEPT !["weekly_stats"] = "sanitize",
                                          !["seasonal_stats"] = "sanitize",
                                          !["aggregated_season_stats"] = "sanitize",
                                          !["player_info"] = "sanitize"]
            /\ pc' = "api_returned"
            /\ UNCHANGED <<team_analytics, raised>>
    /\ UNCHANGED <<df, sanitized_df, log, request>>
    /\ UNCHANGED envVars

\* the script: each table is fetched and filtered
ScriptFetch ==
    /\ pc = "start"
    /\ weekly_stats' = ScriptWeekFilter(ScriptPositionFilter(weekly_stats,
                                                             request.positions),
                                        request.week)
    /\ seasonal_stats' = ScriptPositionFilter(seasonal_stats, request.positions)
    /\ rosters' = ScriptPositionFilter(rosters, request.positions)
    /\ applied' = [applied EXCEPT !["weekly_stats"] = "filter",
                                  !["seasonal_stats"] = "filter",
                                  !["player_info"] = "filter"]
    /\ pc' = "script_fetched"
    /\ UNCHANGED <<sanVars, aggregated_season_stats, team_analytics, raised, request>>
    /\ UNCHANGED envVars

\* the script: aggregated_season_stats = aggregate_weekly_to_season(...)
ScriptAggregate ==
    /\ pc = "script_fetched"
    /\ IF ScriptAggregated(weekly_stats, rosters, request.week).raised
       THEN Fail("script_failed")
       ELSE /\ aggregated_season_stats'
                 = ScriptAggregated(weekly_stats, rosters, request.week).table
            /\ applied' = [applied EXCEPT !["aggregated_season_stats"] = "aggregate"]
            /\ pc' = "script_aggregated"
            /\ UNCHANGED <<weekly_stats, seasonal_stats, rosters, team_analytics, raised>>
    /\ UNCHANGED <<sanVars, request>>
    /\ UNCHANGED envVars

\* the script: team_analytics = calculate_team_analytics(...)
ScriptTeam ==
    /\ pc = "script_aggregated"
    /\ IF script_team_analytics(weekly_stats, seasonal_stats, rosters,
                                aggregated_season_stats).raised
       THEN Fail("script_failed")
       ELSE /\ team_analytics' = script_team_analytics(weekly_stats, seasonal_stats,
                                     rosters, aggregated_season_stats).table
            /\ applied' = [applied EXCEPT !["team_analytics"] = "rollup"]
            /\ pc' = "script_rolled"
            /\ UNCHANGED <<weekly_stats, seasonal_stats, rosters, aggregated_season_stats,
                           raised>>
    /\ UNCHANGED <<sanVars, request>>
    /\ UNCHANGED envVars

\* the script: the three process_* calls build the response
ScriptProcessReturn ==
    /\ pc = "script_rolled"
    /\ IF process_player_info(rosters).raised
       THEN Fail("script_failed")
       ELSE /\ weekly_stats' = process_weekly_stats(weekly_stats)
            /\ seasonal_stats' = process_seasonal_stats(seasonal_stats)
            /\ rosters' = process_player_info(rosters).table
            /\ applied' = [applied EXCEPT !["weekly_stats"] = "process",
                                          !["seasonal_stats"] = "process",
                                          !["player_info"] = "process"]
            /\ pc' = "script_returned"
            /\ UNCHANGED <<aggregated_season_stats, team_analytics, raised>>
    /\ UNCHANGED <<sanVars, request>>
    /\ UNCHANGED envVars

NextPipeline ==
    \/ ApiFetch
    \/ ApiAggregate
    \/ ApiTeam
    \/ ApiSanitizeReturn
    \/ ScriptFetch
    \/ ScriptAggregate
    \/ ScriptTeam
    \/ ScriptProcessReturn

SpecPipeline == InitPipeline /\ [][NextPipeline]_vars

----------------------------------------------------------------------------
(* Properties of the team rollup *)

TeamCallDone == pc \in {"api_done", "script_done"} /\ ~raised

\* num / den * k, and 0 when den is 0
ExpectedRatio(num, den, k) ==
    IF den.n = 0 THEN Num(0) ELSE MkNum(num.n * den.d * k, num.d * den.n)

\* C8: in every team row of either implementation, yards_per_carry is
\* rushing yards / rushing attempts, catch_rate is receptions / targets
\* x 100, yards_per_target is receiving yards / targets, and each is 0
\* when its denominator is 0.
C8_TeamRatios ==
    TeamCallDone =>
        \A i \in RowIdx(team_analytics) :
            LET row == team_analytics.rows[i]
                cols == team_analytics.cols
            IN  /\ {"rushing_yards", "rushing_attempts"} \subseteq cols
                      => /\ "yards_per_carry" \in cols
                         /\ row["yards_per_carry"]
                              = ExpectedRatio(row["rushing_yards"],
                                              row["rushing_attempts"], 1)
                /\ {"receptions", "targets"} \subseteq cols
                      => /\ "catch_rate" \in cols
                         /\ row["catch_rate"]
                              = ExpectedRatio(row["receptions"], row["targets"], 100)
                /\ {"receiving_yards", "targets"} \subseteq cols
                      => /\ "yards_per_target" \in cols
                         /\ row["yards_per_target"]
                              = ExpectedRatio(row["receiving_yards"], row["targets"], 1)

\* the player rows the implementation that ran files under team
IncludedRows(team) ==
    IF pc = "api_done"
    THEN SelectRows(aggregated_season_stats,
             {x \in SeqToSet(aggregated_season_stats.rows) :
                 x[ApiTeamCol(aggregated_season_stats)] = team})
    ELSE SelectRows(aggregated_season_stats,
             {x \in SeqToSet(aggregated_season_stats.rows) :
                 DictValue(rosters, "team", x["player_id"]) = team})

\* the tracked statistics of the implementation that ran: output key and
\* player column
TrackedStats ==
    IF pc = "api_done"
    THEN {<<c, c>> : c \in SeqToSet(stat_columns)}
    ELSE SeqToSet(ScriptTotals)

SumOrZero(t, c) == IF c \in t.cols THEN SumCells(Column(t, c)) ELSE Num(0)

\* C9: in every team row of either implementation, every tracked
\* statistic is present and equals the sum of that statistic over the
\* team's included player rows, 0 when the player table lacks the column.
C9_TeamTotals ==
    TeamCallDone =>
        \A i \in RowIdx(team_analytics) :
            \A st \in TrackedStats :
                /\ st[1] \in team_analytics.cols
                /\ team_analytics.rows[i][st[1]]
                     = SumOrZero(IncludedRows(team_analytics.rows[i][
                                     IF pc = "api_done"
                                     THEN ApiTeamCol(aggregated_season_stats)
                                     ELSE "team"]),
                                 st[2])

\* the roster's player_id -> team mapping: a player's last roster row
RosterMapping ==
    LET tc == RosterTeamCol(rosters)
        last == {j \in RowIdx(rosters) :
                    \A k \in RowIdx(rosters) :
                        rosters.rows[k]["player_id"] = rosters.rows[j]["player_id"]
                            => k <= j}
    IN  {<<rosters.rows[j]["player_id"], rosters.rows[j][tc]>> : j \in last}

\* the table the rollup reads: aggregated, else seasonal, else weekly
RollupSource ==
    IF Len(aggregated_season_stats.rows) > 0 THEN aggregated_season_stats
    ELSE IF Len(seasonal_stats.rows) > 0 THEN seasonal_stats
    ELSE weekly_stats

\* C10: in the roster-based rollup every output team is a non-null,
\* non-empty value of the roster's player_id -> team mapping, no team has
\* two rows, and a team's total is the sum over the rows of players
\* mapped to it, so a player without a mapping adds to no team.
C10_TeamsComeFromRoster ==
    pc = "script_done" /\ ~raised =>
        \A i \in RowIdx(team_analytics) :
            LET team == team_analytics.rows[i]["team"]
            IN  /\ team \notin {NaN, Str("")}
                /\ \E m \in RosterMapping : m[2] = team
                /\ \A j \in RowIdx(team_analytics) :
                      team_analytics.rows[j]["team"] = team => j = i
                /\ team_analytics.rows[i]["total_fantasy_points"]
                     = SumCells(Column(
                           SelectRows(RollupSource,
                               {x \in SeqToSet(RollupSource.rows) :
                                   <<x["player_id"], team>> \in RosterMapping}),
                           "fantasy_points"))

\* a team came out of a roster that also has a row without a team, while
\* p3, who is in no roster, has points in the table
C10_Witness ==
    /\ pc = "script_done"
    /\ ~raised
    /\ Len(team_analytics.rows) > 0
    /\ \E j \in RowIdx(rosters) : rosters.rows[j][RosterTeamCol(rosters)] \in {NaN, Str("")}
    /\ \E x \in SeqToSet(RollupSource.rows) :
          \A m \in RosterMapping : m[1] # x["player_id"]

----------------------------------------------------------------------------
(* Properties of the pipelines *)

\* the table behind each name of the response
Output(o) ==
    IF o = "weekly_stats" THEN weekly_stats
    ELSE IF o = "seasonal_stats" THEN seasonal_stats
    ELSE IF o = "aggregated_season_stats" THEN aggregated_season_stats
    ELSE IF o = "player_info" THEN rosters
    ELSE team_analytics

Returned == pc \in {"api_returned", "script_returned"}

AllFinite(t) == \A p \in NumericCells(t) : IsFinite(t.rows[p[1]][p[2]])

\* C6: when an invocation returns, every table of the response that has
\* rows went through Sanitize as its last step, and none of its numeric
\* cells is Infinity or NaN.
C6_SanitizeIsLastStep ==
    Returned =>
        \A o \in Outputs :
            ~IsEmpty(Output(o)) => applied[o] = "sanitize" /\ AllFinite(Output(o))

\* the position of a player row of team as the implementation that ran
\* sees it: the table's position column, or the roster's
SeenPosition(x, team) ==
    IF pc = "api_done" THEN x["position"]
    ELSE DictValue(SelectRows(rosters, {y \in SeqToSet(rosters.rows) : y["team"] = team}),
                   "position", x["player_id"])

\* the sum of column c over the team's player rows at position pos
PositionSum(team, pos, c) ==
    SumOrZero(SelectRows(IncludedRows(team),
                  {x \in SeqToSet(IncludedRows(team).rows) :
                      SeenPosition(x, team) = Str(pos)}),
              c)

\* C11: every team row of either implementation carries qb_, rb_, wr_ and
\* te_fantasy_points, the sum of fantasy_points_ppr over the team's
\* players at the position, rb_touches, the running backs' carries plus
\* targets, and wr_targets and te_targets; each is present, and 0 when
\* there is no such player or no such column.
C11_PositionBreakdown ==
    TeamCallDone =>
        \A i \in RowIdx(team_analytics) :
            LET row == team_analytics.rows[i]
                cols == team_analytics.cols
                team == row[IF pc = "api_done" THEN ApiTeamCol(aggregated_season_stats)
                            ELSE "team"]
            IN  /\ {"qb_fantasy_points", "rb_fantasy_points", "wr_fantasy_points",
                    "te_fantasy_points", "rb_touches", "wr_targets", "te_targets"}
                       \subseteq cols
                /\ row["qb_fantasy_points"] = PositionSum(team, "QB", "fantasy_points_ppr")
                /\ row["rb_fantasy_points"] = PositionSum(team, "RB", "fantasy_points_ppr")
                /\ row["wr_fantasy_points"] = PositionSum(team, "WR", "fantasy_points_ppr")
                /\ row["te_fantasy_points"] = PositionSum(team, "TE", "fantasy_points_ppr")
                /\ row["rb_touches"] = Add(PositionSum(team, "RB", "carries"),
                                           PositionSum(team, "RB", "targets"))
                /\ row["wr_targets"] = PositionSum(team, "WR", "targets")
                /\ row["te_targets"] = PositionSum(team, "TE", "targets")

\* the label of a passing share of a / (a + b), by cross-multiplication
ExpectedIdentity(a, b) ==
    IF 100 * a.n * b.d > 60 * (a.n * b.d + b.n * a.d) THEN Str("Pass-Heavy")
    ELSE IF 100 * a.n * b.d < 40 * (a.n * b.d + b.n * a.d) THEN Str("Run-Heavy")
    ELSE Str("Balanced")

\* C12: in every team row of either implementation whose passing_yards +
\* rushing_yards is greater than 0, passing_percentage is passing_yards /
\* (passing_yards + rushing_yards) x 100 and offensive_identity is
\* Pass-Heavy above 60, Run-Heavy below 40 and Balanced otherwise, 60 and
\* 40 included.
C12_OffensiveIdentity ==
    TeamCallDone =>
        \A i \in RowIdx(team_analytics) :
            LET row == team_analytics.rows[i]
                cols == team_analytics.cols
            IN  {"passing_yards", "rushing_yards"} \subseteq cols
                /\ Add(row["passing_yards"], row["rushing_yards"]).n > 0
                => /\ {"passing_percentage", "offensive_identity"} \subseteq cols
                   /\ row["passing_percentage"]
                        = ExpectedRatio(row["passing_yards"],
                                        Add(row["passing_yards"], row["rushing_yards"]),
                                        100)
                   /\ row["offensive_identity"]
                        = ExpectedIdentity(row["passing_yards"], row["rushing_yards"])

\* a team on the boundary: 3 passing and 2 rushing yards, 60 percent
C12_Witness ==
    /\ TeamCallDone
    /\ \E i \in RowIdx(team_analytics) :
          /\ {"passing_percentage", "offensive_identity"} \subseteq team_analytics.cols
          /\ team_analytics.rows[i]["passing_yards"] = Num(3)
          /\ team_analytics.rows[i]["rushing_yards"] = Num(2)
          /\ team_analytics.rows[i]["passing_percentage"] = Num(60)
          /\ team_analytics.rows[i]["offensive_identity"] = Str("Balanced")


\* the label the python-api rollup gives every team without offensive
\* yardage, after a passing_percentage of 0.0
ZeroYardageLabel(label) ==
    pc = "api_done" /\ ~raised =>
        \A i \in RowIdx(team_analytics) :
            LET row == team_analytics.rows[i]
            IN  {"passing_yards", "rushing_yards"} \subseteq team_analytics.cols
                /\ Add(row["passing_yards"], row["rushing_yards"]) = Num(0)
                => /\ {"passing_percentage", "offensive_identity"}
                          \subseteq team_analytics.cols
                   /\ row["passing_percentage"] = Num(0)
                   /\ row["offensive_identity"] = Str(label)

\* C13: in the python-api team rollup a team whose total offensive yardage
\* is zero gets passing_percentage 0.0 and offensive_identity 'Balanced'.
C13_ZeroYardageIsBalanced == ZeroYardageLabel("Balanced")

\* C13, amended: in the python-api team rollup a team whose total offensive
\* yardage is zero gets passing_percentage 0.0 and, 0.0 being below 40,
\* offensive_identity 'Run-Heavy'.
C13_ZeroYardageIsRunHeavy == ZeroYardageLabel("Run-Heavy")

\* a python-api team row without offensive yardage
C13_Witness ==
    /\ pc = "api_done" /\ ~raised
    /\ \E i \in RowIdx(team_analytics) :
          /\ {"passing_yards", "rushing_yards", "passing_percentage", "offensive_identity"}
                \subseteq team_analytics.cols
          /\ team_analytics.rows[i]["passing_yards"] = Num(0)
          /\ team_analytics.rows[i]["rushing_yards"] = Num(0)
          /\ team_analytics.rows[i]["passing_percentage"] = Num(0)
          /\ team_analytics.rows[i]["offensive_identity"] = Str("Run-Heavy")


\* the call had no player-level rows to read, or no column naming a team in
\* the table it resolves teams from: the roster in the roster-based rollup,
\* the player table itself in the python-api rollup
NothingToRollUp ==
    \/ /\ pc = "script_done"
       /\ \/ Len(weekly_stats.rows) = 0 /\ Len(seasonal_stats.rows) = 0
          \/ rosters.cols \cap {"team", "team_abbr", "recent_team"} = {}
    \/ /\ pc = "api_done"
       /\ \/ Len(aggregated_season_stats.rows) = 0
          \/ aggregated_season_stats.cols \cap {"team", "team_abbr", "recent_team"} = {}

\* C14: either team rollup returns an empty list and raises nothing when
\* the player-level table is empty or the table it resolves teams from has
\* none of team, team_abbr, recent_team; no row of any team comes back.
C14_EmptyWithoutTeams ==
    NothingToRollUp => ~raised /\ team_analytics.rows = <<>>

\* the roster-based rollup came back from filled tables and a filled roster
\* that names no team
C14_Witness ==
    /\ pc = "script_done"
    /\ Len(weekly_stats.rows) > 0
    /\ Len(rosters.rows) > 0
    /\ rosters.cols \cap {"team", "team_abbr", "recent_team"} = {}
    /\ ~raised
    /\ team_analytics.rows = <<>>


\* the teams the roster gives the players of the table the rollup reads
SourceTeams ==
    {m[2] : m \in {x \in RosterMapping :
                      \E i \in RowIdx(RollupSource) :
                          RollupSource.rows[i]["player_id"] = x[1]}}
        \ {NaN, Str("")}

\* C15: the roster-based rollup reads the aggregated-season table when it
\* is non-empty, otherwise the seasonal table when it is non-empty,
\* otherwise the weekly table; every row of a call is summed from that one
\* table, and there is one row per distinct team (non-null, non-empty) of
\* its players.
C15_SourcePreference ==
    pc = "script_done" /\ ~raised /\ "player_id" \in rosters.cols
        /\ rosters.cols \cap {"team", "team_abbr", "recent_team"} # {} =>
        /\ Len(team_analytics.rows) = Cardinality(SourceTeams)
        /\ {team_analytics.rows[i]["team"] : i \in RowIdx(team_analytics)} = SourceTeams
        /\ \A i \in RowIdx(team_analytics) :
              team_analytics.rows[i]["total_fantasy_points"]
                = SumCells(Column(
                      SelectRows(RollupSource,
                          {x \in SeqToSet(RollupSource.rows) :
                              <<x["player_id"], team_analytics.rows[i]["team"]>>
                                  \in RosterMapping}),
                      "fantasy_points"))

\* all three tables were filled and two teams came out, summed from the
\* aggregated table
C15_Witness ==
    /\ pc = "script_done"
    /\ ~raised
    /\ Len(weekly_stats.rows) > 0
    /\ Len(seasonal_stats.rows) > 0
    /\ Len(aggregated_season_stats.rows) > 0
    /\ Len(team_analytics.rows) = 2
    /\ \E i \in RowIdx(team_analytics) :
          team_analytics.rows[i]["total_fantasy_points"] = Num(128)


----------------------------------------------------------------------------
(* Normalizer harness: one raw provider table, with any mix of aliased    *)
(* and canonical column names, through the rename loop.                    *)

\* the names the rename loop knows, old and new, and a provider column
\* outside of them
AliasCols ==
    {"player_display_name", "player_name", "fantasy_pos", "position",
     "recent_team", "team_abbr", "team", "opponent_team"}

\* the k-th raw row: every column holds a value of its own, and the second
\* row misses all of them
RawRow(cs, k) ==
    [c \in cs |->
        IF c = "player_id" THEN Str(<<"p1", "p2", "p3">>[k])
        ELSE IF k = 2 THEN NaN
        ELSE IF c = "player_display_name" THEN Str("a")
        ELSE IF c = "player_name" THEN Str("b")
        ELSE IF c = "fantasy_pos" THEN Str("QB")
        ELSE IF c = "position" THEN Str("RB")
        ELSE IF c = "recent_team" THEN Str("KC")
        ELSE IF c = "team_abbr" THEN Str("SF")
        ELSE Str("DEF")]

RawTables ==
    {[cols |-> A \cup {"player_id"},
      rows |-> [k \in 1 .. n |-> RawRow(A \cup {"player_id"}, k)]] :
        A \in SUBSET AliasCols, n \in 1 .. MaxRows}

InitNormalize ==
    /\ pc = "start"
    /\ NoData
    /\ df \in RawTables
    /\ sanitized_df = EmptyTable
    /\ quality_metrics = ZeroMetrics
    /\ log = {}
    /\ NoRequest

\* df_processed = df.copy(), then the rename loop, as process_weekly_stats
\* and aggregate_weekly_to_season both start; df_processed is held in
\* weekly_stats
CallRename ==
    /\ pc = "start"
    /\ weekly_stats' = RenameColumns(df, column_mapping)
    /\ pc' = "renamed"
    /\ UNCHANGED <<sanVars, seasonal_stats, rosters, aggregated_season_stats,
                   team_analytics, raised, request, applied>>
    /\ UNCHANGED envVars

\* 'weekly_stats': process_weekly_stats(df)
CallProcessWeekly ==
    /\ pc = "start"
    /\ weekly_stats' = process_weekly_stats(df)
    /\ pc' = "processed"
    /\ UNCHANGED <<sanVars, seasonal_stats, rosters, aggregated_season_stats,
                   team_analytics, raised, request, applied>>
    /\ UNCHANGED envVars

NextNormalize == CallRename \/ CallProcessWeekly

SpecNormalize == InitNormalize /\ [][NextNormalize]_vars

----------------------------------------------------------------------------
(* Properties of the normalizer *)

\* the alias table: canonical name -> acceptable source names, in the order
\* they are tried
AliasTable ==
    [player_name |-> <<"player_display_name">>,
     position |-> <<"fantasy_pos">>,
     team |-> <<"recent_team", "team_abbr">>]

\* the source column that becomes canonical column c of the raw table t:
\* the first alias present when c itself is absent ("" for none)
RenamedFrom(t, c) ==
    LET present == SelectSeq(AliasTable[c], LAMBDA a : a \in t.cols)
    IN  IF c \in t.cols \/ present = <<>> THEN "" ELSE Head(present)

\* C16: the rename loop renames a source column to its canonical name if
\* and only if the source is present and the canonical name is not yet
\* present at that point; it creates no column without a source, raises
\* nothing, keeps the column names distinct (of recent_team and team_abbr
\* only the first becomes team), and leaves the input table as it was.
C16_RenameOnlyWhenFree ==
    pc = "renamed" =>
        LET canon == DOMAIN AliasTable
            sources == {RenamedFrom(df, c) : c \in canon} \ {""}
            made == {c \in canon : RenamedFrom(df, c) # ""}
        IN  /\ ~raised
            /\ weekly_stats.cols = (df.cols \ sources) \cup made
            /\ Cardinality(weekly_stats.cols) = Cardinality(df.cols)
            /\ Len(weekly_stats.rows) = Len(df.rows)
            /\ \A i \in RowIdx(weekly_stats) : \A c \in weekly_stats.cols :
                  weekly_stats.rows[i][c]
                    = IF c \in made THEN df.rows[i][RenamedFrom(df, c)]
                      ELSE df.rows[i][c]

\* recent_team and team_abbr came in without team: recent_team became team
\* and team_abbr stayed
C16_Witness ==
    /\ pc = "renamed"
    /\ {"recent_team", "team_abbr"} \subseteq df.cols
    /\ "team" \notin df.cols
    /\ {"team", "team_abbr"} \subseteq weekly_stats.cols
    /\ "recent_team" \notin weekly_stats.cols
    /\ weekly_stats.rows[1]["team"] = Str("KC")
    /\ weekly_stats.rows[1]["team_abbr"] = Str("SF")


\* the canonical vocabulary: the identity fields and the statistical fields
\* a processed record may carry
CanonicalKeys ==
    weekly_relevant \cup seasonal_relevant \cup {"catch_rate", "completion_rate"}

\* C17: a table that came out of normalization, whether it goes on to the
\* aggregator's grouping or back to the caller, has only keys of the
\* canonical vocabulary, whatever extra or aliased columns the raw table
\* had.
C17_OnlyCanonicalKeys ==
    pc \in {"renamed", "processed"} => weekly_stats.cols \subseteq CanonicalKeys


\* the week-rows of player pid
WeekRowsOf(pid) == {i \in RowIdx(weekly_stats) : weekly_stats.rows[i]["player_id"] = pid}

\* C18: the season aggregate of either pipeline has, for every player and
\* season of the per-week table, one row keyed by player_id and season
\* (and by player_name, position and team when present); the row holds,
\* for every summable statistic of the input, the sum over the group's
\* week-rows, and a games field equal to the number of those week-rows;
\* without a summable column the rows hold the grouping keys and games
\* only.
C18_GroupSumsAndGames ==
    pc \in {"aggregated", "api_aggregated"} /\ ~raised =>
        LET out == aggregated_season_stats
            stats == weekly_stats.cols \cap SeqToSet(sum_stats)
        IN  \A i \in RowIdx(weekly_stats) :
                LET pid == weekly_stats.rows[i]["player_id"]
                    R == {j \in RowIdx(out) : out.rows[j]["player_id"] = pid}
                IN  /\ Cardinality(R) = 1
                    /\ {"player_id", "season", "games"} \cup stats \subseteq out.cols
                    /\ stats = {}
                          => out.cols \subseteq {"player_id", "season", "player_name",
                                                 "position", "team", "games"}
                    /\ \A j \in R :
                          /\ out.rows[j]["season"] = weekly_stats.rows[i]["season"]
                          /\ out.rows[j]["games"] = Num(Cardinality(WeekRowsOf(pid)))
                          /\ \A c \in stats :
                                out.rows[j][c]
                                  = SumCells([k \in 1 .. Len(weekly_stats.rows) |->
                                                 IF k \in WeekRowsOf(pid)
                                                 THEN weekly_stats.rows[k][c] ELSE Num(0)])


\* the rows of table t in the order f, a permutation of its row numbers
Reordered(t, f) == [cols |-> t.cols, rows |-> [i \in RowIdx(t) |-> t.rows[f[i]]]]

RowOrders(t) ==
    {f \in [RowIdx(t) -> RowIdx(t)] : \A i, j \in RowIdx(t) : f[i] = f[j] => i = j}

\* C19: aggregate_weekly_to_season gives the same outcome and the same set
\* of season rows, with the same sums, games and ratios, for every
\* reordering of the per-week rows under the same roster.
C19_RowOrderInvariant ==
    pc = "aggregated" =>
        \A f \in RowOrders(weekly_stats) :
            LET other == aggregate_weekly_to_season(Reordered(weekly_stats, f), rosters)
            IN  /\ other.raised = raised
                /\ other.table.cols = aggregated_season_stats.cols
                /\ SeqToSet(other.table.rows) = SeqToSet(aggregated_season_stats.rows)
                /\ Len(other.table.rows) = Len(aggregated_season_stats.rows)

\* two different week-rows of one player were summed into a season row
C19_Witness ==
    /\ pc = "aggregated"
    /\ ~raised
    /\ Len(weekly_stats.rows) = 2
    /\ weekly_stats.rows[1] # weekly_stats.rows[2]
    /\ weekly_stats.rows[1]["player_id"] = weekly_stats.rows[2]["player_id"]
    /\ Len(aggregated_season_stats.rows) = 1
    /\ aggregated_season_stats.rows[1]["games"] = Num(2)


\* the roster's value of column c for player pid: that of the first roster
\* row of the player, missing when the roster does not list the player
RosterFirst(pid, c) ==
    LET J == {j \in RowIdx(rosters) : rosters.rows[j]["player_id"] = pid}
    IN  IF J = {} THEN NaN
        ELSE rosters.rows[CHOOSE j \in J : \A k \in J : j <= k][c]

\* the team or position (column c) week-row i goes into the grouping with:
\* its own value, and the roster's only where it has none
Backfilled(i, c) ==
    IF c \in weekly_stats.cols /\ ~IsNa(weekly_stats.rows[i][c])
    THEN weekly_stats.rows[i][c]
    ELSE RosterFirst(weekly_stats.rows[i]["player_id"], c)

\* player, team and position of the week-rows that have all three
BackfilledKeys ==
    {<<weekly_stats.rows[i]["player_id"], Backfilled(i, "team"), Backfilled(i, "position")>> :
        i \in {k \in RowIdx(weekly_stats) :
                  ~IsNa(Backfilled(k, "team")) /\ ~IsNa(Backfilled(k, "position"))}}

\* C20: with a roster supplied, a week-row's team and position come from
\* the roster only where the week-row has none; a value the week-row has
\* is kept, and of a player listed several times the roster gives one
\* value: the season rows are keyed by exactly these teams and positions.
C20_RosterFillsOnlyMissing ==
    pc = "aggregated" /\ ~raised /\ Len(rosters.rows) > 0 =>
        {<<aggregated_season_stats.rows[j]["player_id"],
           aggregated_season_stats.rows[j]["team"],
           aggregated_season_stats.rows[j]["position"]>> :
            j \in RowIdx(aggregated_season_stats)} = BackfilledKeys

\* player p1, listed twice in the roster, has a week-row with a team of
\* its own and one without: the first keeps its team and takes the
\* roster's position, the second takes the roster's team
C20_Witness ==
    /\ pc = "aggregated"
    /\ ~raised
    /\ Len(rosters.rows) = 2
    /\ rosters.rows[1]["player_id"] = rosters.rows[2]["player_id"]
    /\ Len(aggregated_season_stats.rows) = 2
    /\ \E j \in RowIdx(aggregated_season_stats) :
          /\ aggregated_season_stats.rows[j]["team"] = Str("SF")
          /\ aggregated_season_stats.rows[j]["position"] = Str("RB")
    /\ \E j \in RowIdx(aggregated_season_stats) :
          /\ aggregated_season_stats.rows[j]["team"] = Str("KC")
          /\ aggregated_season_stats.rows[j]["position"] = Str("WR")


\* C21: an empty per-week table, with or without columns and with or
\* without a roster, gives an empty season aggregate in either pipeline:
\* no rows and no exception.
C21_EmptyInEmptyOut ==
    pc \in {"aggregated", "api_aggregated"} /\ Len(weekly_stats.rows) = 0 =>
        ~raised /\ aggregated_season_stats.rows = <<>>

\* the aggregator came back from a table without rows or columns and a
\* filled roster
C21_Witness ==
    /\ pc = "aggregated"
    /\ weekly_stats = EmptyTable
    /\ Len(rosters.rows) > 0
    /\ ~raised
    /\ aggregated_season_stats.rows = <<>>

----------------------------------------------------------------------------
(* python-api/main.py: validate_input_parameters and the parameter        *)
(* parsing of extract_nfl_data                                             *)

MinYear == 1999

\* datetime.utcnow().year
CurrentYear == 2026

MaxWeek == 22

valid_positions == {"QB", "RB", "WR", "TE", "K", "DEF"}

\* int(y.strip()): the tokens that parse, with their values; any other
\* token raises ValueError
IntOf == [x \in {"1998", "1999", " 2026", "2027"} |->
             IF x = "1998" THEN 1998 ELSE IF x = "1999" THEN 1999
             ELSE IF x = " 2026" THEN 2026 ELSE 2027]

\* p.strip().upper()
StripUpper(p) == IF p \in {" qb", "QB"} THEN "QB" ELSE IF p = "xx" THEN "XX" ELSE p

\* the HTTPException(status_code=400, detail=...): the detail names a value
\* and, where the message has one, the valid range or set (else {})
BadRequest(value, valid) ==
    [status |-> 400, detail |-> [names |-> value, valid |-> valid]]

\* the first year, then the first position, then the week out of range;
\* status 0 when nothing is raised
validate_input_parameters(years, positions, week) ==
    LET badY == SelectSeq(years, LAMBDA y : y < MinYear \/ y > CurrentYear)
        badP == SelectSeq(positions, LAMBDA p : p \notin valid_positions)
    IN  IF badY # <<>> THEN BadRequest(Num(Head(badY)), MinYear..CurrentYear)
        ELSE IF badP # <<>> THEN BadRequest(Str(Head(badP)), valid_positions)
        ELSE IF ~IsNa(week) /\ (week.n < 1 \/ week.n > MaxWeek)
        THEN BadRequest(week, 1..MaxWeek)
        ELSE [status |-> 0]

\* year_list, position_list and the validation, up to the first fetch; a
\* token that does not parse gives the 400 of the ValueError, whose text
\* quotes the token
ParseAndValidate(req) ==
    LET badT == SelectSeq(req.years, LAMBDA y : y \notin DOMAIN IntOf)
        year_list == [i \in DOMAIN req.years |-> IntOf[req.years[i]]]
        position_list == [i \in DOMAIN req.positions |-> StripUpper(req.positions[i])]
    IN  IF badT # <<>> THEN BadRequest(Str(Head(badT)), {})
        ELSE validate_input_parameters(year_list, position_list, req.week)

\* the except clauses of extract_nfl_data: the status by exception type
\* and message
HandlerStatus(exc) ==
    IF exc \in {"ConnectionError", "TimeoutError"} THEN 502
    ELSE IF exc = "HTTPError 404" THEN 404
    ELSE 500

----------------------------------------------------------------------------
(* Request harness: one extract invocation, from the caller's parameters   *)
(* through the three provider fetches to the response.                     *)

\* the provider's answer to a fetch: a table, or an exception
Answered(t) == [exc |-> "", table |-> t]

Unavailable(e) == [exc |-> e, table |-> EmptyTable]

ProviderErrors == {"ConnectionError", "TimeoutError", "HTTPError 404", "URLError"}

\* two week rows of running back p1, the second with an infinite yardage
WeeklyFull ==
    [cols |-> {"player_id", "season", "week", "position", "recent_team", "carries",
               "rushing_yards"},
     rows |-> <<[player_id |-> Str("p1"), season |-> Num(Season), week |-> Num(1),
                 position |-> Str("RB"), recent_team |-> Str("KC"), carries |-> Num(1),
                 rushing_yards |-> Num(1)],
                [player_id |-> Str("p1"), season |-> Num(Season), week |-> Num(2),
                 position |-> Str("RB"), recent_team |-> Str("KC"), carries |-> Num(0),
                 rushing_yards |-> PosInf]>>]

\* the table without its rows: structurally valid, empty
NoRows(t) == [cols |-> t.cols, rows |-> <<>>]

UpstreamWeekly ==
    {WeeklyFull, NoRows(WeeklyFull), EmptyTable,
     Project(WeeklyFull, WeeklyFull.cols \ {"position"}),
     Project(WeeklyFull, WeeklyFull.cols \ {"week"})}

UpstreamSeasonal == {SeasonalP1, NoRows(SeasonalP1), EmptyTable}

UpstreamRoster ==
    {RosterP1, NoRows(RosterP1), Project(RosterP1, {"team", "position"})}

Upstreams ==
    [weekly : {Answered(t) : t \in UpstreamWeekly} \cup {Unavailable(e) : e \in ProviderErrors},
     seasonal : {Answered(t) : t \in UpstreamSeasonal} \cup {Unavailable(e) : e \in ProviderErrors},
     roster : {Answered(t) : t \in UpstreamRoster} \cup {Unavailable(e) : e \in ProviderErrors}]

\* the query strings: years, positions and week as the caller sent them
YearParams ==
    {<<"1999">>, <<" 2026">>, <<"1998">>, <<"2027">>, <<"abc">>, <<"1999", "2027">>,
     <<"abc", "1998">>}

PositionParams == {<<"QB", "RB", "WR", "TE">>, <<" qb", "RB">>, <<"RB", "xx">>, <<"K">>}

WeekParams == {NaN, Num(0), Num(1), Num(MaxWeek), Num(MaxWeek + 1)}

\* every request against a provider that answers, and the plain requests
\* against every provider
RequestCases ==
    {<<[years |-> y, positions |-> p, week |-> w],
       [weekly |-> Answered(WeeklyFull), seasonal |-> Answered(SeasonalP1),
        roster |-> Answered(RosterP1)]>> :
        y \in YearParams, p \in PositionParams, w \in WeekParams}
    \cup {<<[years |-> <<"1999">>, positions |-> <<"QB", "RB", "WR", "TE">>, week |-> w], u>> :
             w \in {NaN, Num(1)}, u \in Upstreams}

InitRequest ==
    /\ pc = "start"
    /\ NoSanitize
    /\ weekly_stats = EmptyTable
    /\ seasonal_stats = EmptyTable
    /\ rosters = EmptyTable
    /\ aggregated_season_stats = EmptyTable
    /\ team_analytics = EmptyTable
    /\ raised = FALSE
    /\ applied = NoSteps
    /\ \E c \in RequestCases : request = c[1] /\ upstream = c[2]
    /\ steps = <<>>
    /\ response = [status |-> 0]
    /\ sys_stdout = "terminal"
    /\ invocations = <<>>

\* the stages with each table filtered before it is validated
StagesFilterFirst ==
    <<"fetch_weekly", "filter_weekly", "validate_weekly",
      "fetch_seasonal", "filter_seasonal", "validate_seasonal",
      "fetch_roster", "filter_roster", "validate_roster", "finish">>

\* the steps between the validation and the aggregation, and the table
\* each of them works on
Stages ==
    <<"fetch_weekly", "validate_weekly", "filter_weekly",
      "fetch_seasonal", "validate_seasonal", "filter_seasonal",
      "fetch_roster", "validate_roster", "filter_roster", "finish">>

NextStage(p) == Stages[(CHOOSE i \in DOMAIN Stages : Stages[i] = p) + 1]

TableOf(p) ==
    IF p \in {"fetch_weekly", "validate_weekly", "filter_weekly"} THEN "weekly"
    ELSE IF p \in {"fetch_seasonal", "validate_seasonal", "filter_seasonal"} THEN "seasonal"
    ELSE "roster"

\* position_list
PositionList(req) == {StripUpper(req.positions[i]) : i \in DOMAIN req.positions}

\* the HTTPException an except clause raises for exception exc
ErrorResponse(exc) == [status |-> HandlerStatus(exc), detail |-> [names |-> Str(exc), valid |-> {}]]

\* main.py: the parameters are parsed and validated
ApiParse ==
    /\ pc = "start"
    /\ IF ParseAndValidate(request).status = 400
       THEN /\ response' = ParseAndValidate(request)
            /\ Fail("done")
       ELSE /\ pc' = "fetch_weekly"
            /\ UNCHANGED <<response, weekly_stats, seasonal_stats, rosters,
                           aggregated_season_stats, team_analytics, raised, applied>>
    /\ UNCHANGED <<sanVars, request, upstream, steps, sys_stdout, invocations>>

\* main.py: nfl.import_weekly_data / import_seasonal_data /
\* import_seasonal_rosters; an exception goes to the except clauses
ApiFetchStep ==
    /\ pc \in {"fetch_weekly", "fetch_seasonal", "fetch_roster"}
    /\ steps' = Append(steps, <<"fetch", TableOf(pc)>>)
    /\ IF upstream[TableOf(pc)].exc # ""
       THEN /\ response' = ErrorResponse(upstream[TableOf(pc)].exc)
            /\ Fail("done")
       ELSE /\ weekly_stats' = IF pc = "fetch_weekly" THEN upstream.weekly.table
                               ELSE weekly_stats
            /\ seasonal_stats' = IF pc = "fetch_seasonal" THEN upstream.seasonal.table
                                 ELSE seasonal_stats
            /\ rosters' = IF pc = "fetch_roster" THEN upstream.roster.table ELSE rosters
            /\ pc' = NextStage(pc)
            /\ UNCHANGED <<response, aggregated_season_stats, team_analytics, raised,
                           applied>>
    /\ UNCHANGED <<sanVars, request, upstream, sys_stdout, invocations>>

\* the table the stage at p works on
CurrentTable(p) ==
    IF TableOf(p) = "weekly" THEN weekly_stats
    ELSE IF TableOf(p) = "seasonal" THEN seasonal_stats
    ELSE rosters

\* main.py: validate_nfl_data(weekly_df, "weekly_data") and its like
ApiValidateStep ==
    /\ pc \in {"validate_weekly", "validate_seasonal", "validate_roster"}
    /\ log' = log \cup validate_nfl_data(CurrentTable(pc)).log
    /\ steps' = Append(steps, <<"validate", TableOf(pc)>>)
    /\ pc' = NextStage(pc)
    /\ UNCHANGED <<df, sanitized_df, quality_metrics, dataVars, upstream, response,
                   sys_stdout, invocations>>

\* main.py: the position filter of each table and the week filter of the
\* weekly table
ApiFilterStep ==
    /\ pc \in {"filter_weekly", "filter_seasonal", "filter_roster"}
    /\ steps' = Append(steps, <<"filter", TableOf(pc)>>)
    /\ LET w == ApiWeekFilter(ApiPositionFilter(weekly_stats, PositionList(request)),
                              request.week)
       IN  IF pc = "filter_weekly" /\ w.raised
           THEN /\ response' = ErrorResponse("KeyError")
                /\ Fail("done")
           ELSE /\ weekly_stats' = IF pc = "filter_weekly" THEN w.table ELSE weekly_stats
                /\ seasonal_stats' = IF pc = "filter_seasonal"
                                     THEN ApiPositionFilter(seasonal_stats,
                                                            PositionList(request))
                                     ELSE seasonal_stats
                /\ rosters' = IF pc = "filter_roster"
                              THEN ApiPositionFilter(rosters, PositionList(request))
                              ELSE rosters
                /\ pc' = NextStage(pc)
                /\ UNCHANGED <<response, aggregated_season_stats, team_analytics, raised,
                               applied>>
    /\ UNCHANGED <<sanVars, request, upstream, sys_stdout, invocations>>

\* main.py: aggregation, team analytics, sanitization and the returned
\* dict with its record counts
ApiFinish ==
    /\ pc = "finish"
    /\ LET agg == ApiAggregated(weekly_stats)
           team == api_team_analytics(agg.table)
       IN  IF \/ agg.raised
              \/ team.raised
              \/ ~IsEmpty(rosters) /\ "player_id" \notin rosters.cols
           THEN /\ response' = ErrorResponse("KeyError")
                /\ Fail("done")
                /\ UNCHANGED quality_metrics
           ELSE /\ weekly_stats' = ToRecords(sanitize_dataframe(weekly_stats).df)
                /\ seasonal_stats' = ToRecords(sanitize_dataframe(seasonal_stats).df)
                /\ aggregated_season_stats' = ToRecords(sanitize_dataframe(agg.table).df)
                /\ rosters' = ToRecords(sanitize_dataframe(rosters).df)
                /\ team_analytics' = team.table
                /\ quality_metrics'
                     = [weekly |-> sanitize_dataframe(weekly_stats).metrics,
                        seasonal |-> sanitize_dataframe(seasonal_stats).metrics,
                        aggregated |-> sanitize_dataframe(agg.table).metrics,
                        roster |-> sanitize_dataframe(rosters).metrics]
                /\ response'
                     = [status |-> 200,
                        metadata |->
                            [total_weekly_records |-> Len(weekly_stats.rows),
                             total_seasonal_records |-> Len(seasonal_stats.rows),
                             total_aggregated_records |-> Len(agg.table.rows),
                             total_players |->
                                 Cardinality({rosters.rows[i]["player_id"] :
                                                 i \in RowIdx(rosters)})]]
                /\ pc' = "done"
                /\ UNCHANGED <<raised, applied>>
    /\ UNCHANGED <<df, sanitized_df, log, request, upstream, steps, sys_stdout,
                   invocations>>

\* the dict extract_player_stats returns from its except clause
ScriptError(e) ==
    [status |-> 0, error |-> e,
     metadata |-> [total_weekly_records |-> 0, total_seasonal_records |-> 0,
                   total_players |-> 0]]

\* the first provider exception of the three fetches ("" for none)
FirstFailure(u) ==
    IF u.weekly.exc # "" THEN u.weekly.exc
    ELSE IF u.seasonal.exc # "" THEN u.seasonal.exc
    ELSE u.roster.exc

\* scripts: extract_player_stats, from the fetches to the returned dict;
\* any exception ends in the dict of the except clause
ScriptExtract ==
    /\ pc = "start"
    /\ \A i \in DOMAIN request.years : request.years[i] \in DOMAIN IntOf
    /\ LET P == SeqToSet(request.positions)
           w == ScriptWeekFilter(ScriptPositionFilter(upstream.weekly.table, P),
                                 request.week)
           s == ScriptPositionFilter(upstream.seasonal.table, P)
           r == ScriptPositionFilter(upstream.roster.table, P)
           agg == ScriptAggregated(w, r, request.week)
           team == script_team_analytics(w, s, r, agg.table)
           failure == IF FirstFailure(upstream) # "" THEN FirstFailure(upstream)
                      ELSE IF agg.raised \/ team.raised \/ process_player_info(r).raised
                      THEN "KeyError"
                      ELSE ""
       IN  IF failure # ""
           THEN /\ response' = ScriptError(failure)
                /\ weekly_stats' = EmptyTable
                /\ seasonal_stats' = EmptyTable
                /\ rosters' = EmptyTable
                /\ aggregated_season_stats' = EmptyTable
                /\ team_analytics' = EmptyTable
           ELSE /\ response'
                     = [status |-> 0, error |-> "",
                        metadata |->
                            [total_weekly_records |-> Len(w.rows),
                             total_seasonal_records |-> Len(s.rows),
                             total_aggregated_records |-> Len(agg.table.rows),
                             total_players |->
                                 Cardinality({r.rows[i]["player_id"] : i \in RowIdx(r)}),
                             total_teams |-> Len(team.table.rows)]]
                /\ weekly_stats' = process_weekly_stats(w)
                /\ seasonal_stats' = process_seasonal_stats(s)
                /\ rosters' = process_player_info(r).table
                /\ aggregated_season_stats' = agg.table
                /\ team_analytics' = team.table
    /\ pc' = "script_returned"
    /\ UNCHANGED <<sanVars, raised, request, applied, upstream, steps, sys_stdout,
                   invocations>>

NextRequest ==
    \/ ApiParse
    \/ ApiFetchStep
    \/ ApiValidateStep
    \/ ApiFilterStep
    \/ ApiFinish
    \/ ScriptExtract

SpecRequest == InitRequest /\ [][NextRequest]_vars


----------------------------------------------------------------------------
(* Properties of the request surface and the error policy.                 *)

\* the values of a request that the parameter checks do not accept
OffendingValues(req) ==
    {Str(req.years[i]) : i \in {j \in DOMAIN req.years : req.years[j] \notin DOMAIN IntOf}}
    \cup {Num(IntOf[req.years[i]]) :
             i \in {j \in DOMAIN req.years :
                       /\ req.years[j] \in DOMAIN IntOf
                       /\ IntOf[req.years[j]] \notin MinYear..CurrentYear}}
    \cup {Str(StripUpper(req.positions[i])) :
             i \in {j \in DOMAIN req.positions :
                       StripUpper(req.positions[j]) \notin valid_positions}}
    \cup (IF ~IsNa(req.week) /\ req.week.n \notin 1..MaxWeek THEN {req.week} ELSE {})

\* C22: a request with an unparseable year, a year outside 1999..current
\* year, an unknown position or a week outside 1..22 ends with a 400 that
\* names an offending value and the valid range or set, and no upstream
\* fetch has been performed.
C22_InvalidInputRejected ==
    (pc \notin {"start", "script_returned"} /\ OffendingValues(request) # {})
        => /\ pc = "done"
           /\ response.status = 400
           /\ response.detail.names \in OffendingValues(request)
           /\ Cardinality(response.detail.valid) > 0
           /\ steps = <<>>


\* the exceptions of a provider that cannot be reached or times out
Unreachable == {"ConnectionError", "TimeoutError"}

\* the fetch at which the invocation ended: the last fetch the service
\* performed, the first failing one of the script
FailedFetch ==
    IF pc = "done" /\ steps # <<>> /\ steps[Len(steps)][1] = "fetch"
    THEN upstream[steps[Len(steps)][2]].exc
    ELSE IF pc = "script_returned" THEN FirstFailure(upstream)
    ELSE ""

\* C23: when a fetch fails because the provider cannot be reached or times
\* out, the invocation ends in the distinct provider-unavailable failure
\* (502) and never returns normally with empty tables in place of the data.
C23_UnavailableIsBadGateway ==
    FailedFetch \in Unreachable => response.status = 502


\* the provider answered all three fetches with a table
AllAnswered == \A k \in {"weekly", "seasonal", "roster"} : upstream[k].exc = ""

\* C24: with valid parameters and three tables actually returned by the
\* provider (empty, partial-schema, or holding Inf/NaN), extract_nfl_data
\* ends with the success response, never with a 404 or 500.
C24_ReturnedTablesSucceed ==
    (pc = "done" /\ OffendingValues(request) = {} /\ AllAnswered)
        => response.status = 200


\* a table with its columns and no rows
ValidEmpty(t) == t.cols # {} /\ t.rows = <<>>

\* the provider's tables of the full schema
FullSchema == {WeeklyFull, SeasonalP1, RosterP1}

\* every table the provider returned has the full schema or is
\* structurally valid and empty
EmptyOrFull ==
    /\ AllAnswered
    /\ \A k \in {"weekly", "seasonal", "roster"} :
          upstream[k].table \in FullSchema \/ ValidEmpty(upstream[k].table)

\* C25: when the provider returns structurally valid but empty tables, with
\* or without a week filter, the invocation completes normally; the outputs
\* derived from an empty table are empty and their record counts are 0, and
\* with all three tables empty every output is empty and every count is 0.
C25_EmptyTablesDegrade ==
    (pc \in {"done", "script_returned"} /\ OffendingValues(request) = {} /\ EmptyOrFull)
        => /\ IF pc = "done" THEN response.status = 200 ELSE response.error = ""
           /\ ValidEmpty(upstream.weekly.table)
                => /\ weekly_stats.rows = <<>>
                   /\ aggregated_season_stats.rows = <<>>
                   /\ response.metadata.total_weekly_records = 0
                   /\ response.metadata.total_aggregated_records = 0
           /\ ValidEmpty(upstream.seasonal.table)
                => /\ seasonal_stats.rows = <<>>
                   /\ response.metadata.total_seasonal_records = 0
           /\ ValidEmpty(upstream.roster.table)
                => rosters.rows = <<>> /\ response.metadata.total_players = 0
           /\ ValidEmpty(upstream.weekly.table) /\ ValidEmpty(upstream.seasonal.table)
                => team_analytics.rows = <<>>

\* the service has answered a week request against an all-empty provider
C25_Witness ==
    /\ pc = "done"
    /\ response.status = 200
    /\ ~IsNa(request.week)
    /\ \A k \in {"weekly", "seasonal", "roster"} :
          upstream[k].exc = "" /\ ValidEmpty(upstream[k].table)
    /\ team_analytics.rows = <<>>
    /\ response.metadata.total_weekly_records = 0


----------------------------------------------------------------------------
(* Schema drift harness: the Season Aggregator and the two Team Rollups    *)
(* over tables from which any subset of the optional columns is absent.    *)

DriftWeekly ==
    {Project(WeeklyFull, WeeklyFull.cols \ absent) :
        absent \in SUBSET {"position", "week", "season", "recent_team", "carries"}}

DriftRoster ==
    {Project(RosterP1, present) : present \in (SUBSET RosterP1.cols) \ {{}}}
    \cup {EmptyTable}

InitDrift ==
    /\ pc = "start"
    /\ NoSanitize
    /\ weekly_stats \in DriftWeekly
    /\ aggregated_season_stats = weekly_stats
    /\ seasonal_stats = EmptyTable
    /\ rosters \in DriftRoster
    /\ team_analytics = EmptyTable
    /\ raised = FALSE
    /\ request = DefaultRequest
    /\ applied = NoSteps
    /\ NoRequest

NextDrift == CallAggregate \/ CallScriptRoster \/ CallApiTeam

SpecDrift == InitDrift /\ [][NextDrift]_vars

\* C26: whatever subset of the expected columns is absent from the
\* player-level, per-week or roster table, the Season Aggregator and both
\* Team Rollups complete without raising.
C26_SchemaDriftNeverRaises ==
    pc \in {"aggregated", "script_done", "api_done"} => ~raised


\* the tables Validate has been called on, in the order of the calls
Validated == SelectSeq(steps, LAMBDA st : st[1] = "validate")

\* C27: in extract_nfl_data every fetched table goes to Validate right
\* after its fetch and before any filter touches it, Validate runs once
\* per fetched table, and the diagnostics are those of the unprocessed
\* upstream tables.
C27_ValidateFreshOnce ==
    /\ \A i \in DOMAIN steps :
          /\ (steps[i][1] = "fetch" /\ i < Len(steps))
                => steps[i + 1] = <<"validate", steps[i][2]>>
          /\ steps[i][1] = "validate"
                => i > 1 /\ steps[i - 1] = <<"fetch", steps[i][2]>>
          /\ steps[i][1] = "filter"
                => \E j \in 1..(i - 1) : steps[j] = <<"validate", steps[i][2]>>
    /\ \A i, j \in DOMAIN Validated : Validated[i] = Validated[j] => i = j
    /\ (pc = "done" /\ response.status = 200) => Len(Validated) = 3
    /\ pc # "script_returned"
          => log = UNION {validate_nfl_data(upstream[Validated[i][2]].table).log :
                             i \in DOMAIN Validated}

\* a week-1 request has succeeded: the infinite yardage of week 2 is in
\* the diagnostics although the filter has dropped its row
C27_Witness ==
    /\ pc = "done"
    /\ response.status = 200
    /\ request.week = Num(1)
    /\ Len(weekly_stats.rows) = 1
    /\ \E d \in log : d.column = "rushing_yards" /\ d.inf_count = 1


\* C28: the Season Aggregator produces a <stat>_per_game field only for the
\* fixed per-game subset of the summable statistics; its value is the
\* group's sum divided by the group's games, and a row with games = 0 gets
\* no Infinity or NaN per-game value.
C28_PerGameGuarded ==
    (pc = "aggregated" /\ ~raised)
        => \A st \in SeqToSet(sum_stats) :
              (st \o "_per_game") \in aggregated_season_stats.cols
                 => /\ st \in SeqToSet(per_game_stats)
                    /\ \A i \in RowIdx(aggregated_season_stats) :
                          LET row == aggregated_season_stats.rows[i]
                          IN  IF row["games"].n > 0
                              THEN row[st \o "_per_game"] = Div(row[st], row["games"])
                              ELSE IsFinite(row[st \o "_per_game"])


\* the total of column c over the rows of table t (0 without the column)
ColumnTotal(t, c) == IF c \in t.cols THEN SumCells(Column(t, c)) ELSE Num(0)

\* C30: season aggregation conserves its input: the games of the output
\* rows add up to the number of week-rows, and for each summable statistic
\* the total over the output rows is the total over the week-rows, also
\* when team, position or player_name is still missing after the backfill.
C30_AggregationConserves ==
    (pc \in {"aggregated", "api_aggregated"} /\ ~raised /\ ~IsEmpty(weekly_stats))
        => /\ pc = "aggregated"
                => ColumnTotal(aggregated_season_stats, "games")
                     = Num(Len(weekly_stats.rows))
           /\ \A c \in weekly_stats.cols \cap SeqToSet(sum_stats) :
                 ColumnTotal(aggregated_season_stats, c) = ColumnTotal(weekly_stats, c)


----------------------------------------------------------------------------
(* scripts/nfl_data_extractor.py: two invocations of extract_player_stats  *)
(* in one process, each entering and leaving suppress_stdout around its    *)
(* three fetches. sys.stdout is the process-wide stream.                   *)

FetchOrder == <<"weekly", "seasonal", "roster">>

InvocationNames == <<"A", "B">>

\* open(os.devnull, "w"): a new file object at every entry
DevNull(i, k) == "devnull_" \o InvocationNames[i] \o "_" \o FetchOrder[k]

\* the dict an invocation returns: from the except clause when its fetch
\* number fails raised, else the processed data
ResultOf(fails) == [error |-> IF fails = 0 THEN "" ELSE "ConnectionError"]

InitConcurrent ==
    /\ pc = "start"
    /\ NoSanitize
    /\ NoData
    /\ upstream = <<>>
    /\ steps = <<>>
    /\ response = [status |-> 0]
    /\ sys_stdout = "terminal"
    /\ \E f \in [DOMAIN InvocationNames -> 0 .. Len(FetchOrder)] :
          invocations = [i \in DOMAIN InvocationNames |->
                            [pc |-> "call", table |-> 1, old_stdout |-> "", fails |-> f[i],
                             result |-> [error |-> "pending"]]]

\* old_stdout = sys.stdout
SaveStdout(i) ==
    /\ invocations[i].pc = "call"
    /\ invocations' = [invocations EXCEPT ![i].old_stdout = sys_stdout, ![i].pc = "saved"]
    /\ UNCHANGED <<pc, sanVars, dataVars, upstream, steps, response, sys_stdout>>

\* sys.stdout = devnull
RedirectStdout(i) ==
    /\ invocations[i].pc = "saved"
    /\ sys_stdout' = DevNull(i, invocations[i].table)
    /\ invocations' = [invocations EXCEPT ![i].pc = "suppressed"]
    /\ UNCHANGED <<pc, sanVars, dataVars, upstream, steps, response>>

\* the yield: nfl.import_* returns or raises inside the with block
FetchSuppressed(i) ==
    /\ invocations[i].pc = "suppressed"
    /\ invocations' = [invocations EXCEPT ![i].pc = "leaving"]
    /\ UNCHANGED <<pc, sanVars, dataVars, upstream, steps, response, sys_stdout>>

\* finally: sys.stdout = old_stdout; then the next fetch, or the return
\* (after an exception, through the except clause)
RestoreStdout(i) ==
    /\ invocations[i].pc = "leaving"
    /\ sys_stdout' = invocations[i].old_stdout
    /\ LET inv == invocations[i]
       IN  invocations'
             = IF inv.fails = inv.table \/ inv.table = Len(FetchOrder)
               THEN [invocations EXCEPT ![i].pc = "returned",
                                        ![i].result = ResultOf(IF inv.fails = inv.table
                                                               THEN inv.fails ELSE 0)]
               ELSE [invocations EXCEPT ![i].pc = "call", ![i].table = inv.table + 1]
    /\ UNCHANGED <<pc, sanVars, dataVars, upstream, steps, response>>

NextConcurrent ==
    \E i \in DOMAIN InvocationNames :
        \/ SaveStdout(i)
        \/ RedirectStdout(i)
        \/ FetchSuppressed(i)
        \/ RestoreStdout(i)

SpecConcurrent == InitConcurrent /\ [][NextConcurrent]_vars

\* C29: for every interleaving of two invocations of extract_player_stats,
\* once both have returned sys.stdout is the stream it was before either
\* started, and each invocation's result is the one its own fetches give.
C29_StdoutRestored ==
    (\A i \in DOMAIN invocations : invocations[i].pc = "returned")
        => /\ sys_stdout = "terminal"
           /\ \A i \in DOMAIN invocations :
                 invocations[i].result = ResultOf(invocations[i].fails)

====
